---- MODULE Spec2Model ----
(***************************************************************************)
(* Model of the <form-repeatable> web component (FormRepeatableElement):   *)
(* template extraction, group add/remove/renumber, min/max constraints,    *)
(* rendering of the add/remove affordances and form value aggregation.     *)
(*                                                                         *)
(* Strings are sequences of one-character strings, so that the count       *)
(* regex, the {n} replacement, parseInt and Number#toString are computed   *)
(* character by character as the JavaScript does.                          *)
(***************************************************************************)
EXTENDS Integers, Sequences, FiniteSets, TLC

\* null, undefined and NaN are the empty option; Some(v) is a value
None == <<>>
Some(v) == <<v>>

(* ------------------------------ bounds --------------------------------- *)
\* largest number of light-DOM children the page supplies
MaxChildren == 2
\* ids are issued while _nextId <= MaxId
MaxId == 3
\* same, for the large-collection specification, whose page supplies
\* LargeChildren groups
MaxIdLarge == 11
LargeChildren == 10
\* same, for the specification with the form callbacks
MaxIdForm == 2
\* same, for the specification of the min and max attribute strings
MaxIdConfig == 1
\* same, for the specification of the pages with every kind of control
MaxIdControls == 2
\* same, for the specification of the template pages
MaxIdTemplate == 2
\* same, for the specification of the pages without a usable template
MaxIdInert == 2
\* same, for the specification of form reset
MaxIdReset == 2
\* same, for the specification of the remove buttons' labels
MaxIdLabel == 3
\* same, for the specification of the property assignments
MaxIdProperty == 2
\* largest number assigned to the min and max properties
MaxAssigned == 4
\* cap on the ids handed out in the specification of the re-entrant listeners
MaxIdReentrant == 12
\* same, for the specification of the controls with a number for value
MaxIdQuantity == 3
\* same, for the specification of the labels around their control
MaxIdNested == 3
\* longest text given to the count regex
MaxTextLen == 3
\* largest number filled in or renumbered to
MaxNumber == 12

(* ------------------------------ strings -------------------------------- *)
Digits == <<"0", "1", "2", "3", "4", "5", "6", "7", "8", "9">>

IsDigit(ch) == \E i \in 1..10 : Digits[i] = ch

DigitVal(ch) == (CHOOSE i \in 1..10 : Digits[i] = ch) - 1

IsLineTerminator(ch) == ch \in {"\n", "\r"}

IsSpace(ch) == ch \in {" ", "\t", "\n", "\r"}

\* Number.prototype.toString for a non-negative integer
RECURSIVE NatToString(_)
NatToString(n) ==
    IF n < 10 THEN <<Digits[n + 1]>>
    ELSE NatToString(n \div 10) \o <<Digits[(n % 10) + 1]>>

\* Number.prototype.toString for an integer
toString(n) == IF n < 0 THEN <<"-">> \o NatToString(0 - n) ELSE NatToString(n)

\* value of the leading run of decimal digits of s, read from position i
RECURSIVE DigitRun(_, _, _)
DigitRun(s, i, acc) ==
    IF i <= Len(s) /\ IsDigit(s[i])
    THEN DigitRun(s, i + 1, acc * 10 + DigitVal(s[i]))
    ELSE acc

RECURSIVE SkipSpace(_, _)
SkipSpace(s, i) == IF i <= Len(s) /\ IsSpace(s[i]) THEN SkipSpace(s, i + 1) ELSE i

\* parseInt(a, 10) of an attribute value a (None for null); None is NaN
parseInt(a) ==
    IF a = None THEN None
    ELSE LET s == a[1]
             i == SkipSpace(s, 1)
             neg == i <= Len(s) /\ s[i] = "-"
             j == IF i <= Len(s) /\ s[i] \in {"-", "+"} THEN i + 1 ELSE i
         IN  IF j <= Len(s) /\ IsDigit(s[j])
             THEN Some(IF neg THEN 0 - DigitRun(s, j, 0) ELSE DigitRun(s, j, 0))
             ELSE None

\* String.prototype.trim
RECURSIVE trim(_)
trim(s) ==
    IF s = <<>> THEN s
    ELSE IF IsSpace(s[1]) THEN trim(Tail(s))
    ELSE IF IsSpace(s[Len(s)]) THEN trim(SubSeq(s, 1, Len(s) - 1))
    ELSE s

\* does the pattern p occur in s at position i
OccursAt(s, p, i) == i + Len(p) - 1 <= Len(s) /\ SubSeq(s, i, i + Len(p) - 1) = p

Marker == <<"{", "n", "}">>

\* s.replace(/{n}/g, r)
RECURSIVE ReplaceMarker(_, _)
ReplaceMarker(s, r) ==
    IF s = <<>> THEN s
    ELSE IF OccursAt(s, Marker, 1)
         THEN r \o ReplaceMarker(SubSeq(s, Len(Marker) + 1, Len(s)), r)
         ELSE <<s[1]>> \o ReplaceMarker(Tail(s), r)

(* ----------------------- the count regex ------------------------------- *)
\* /(.*)(\d+)(.*)/ : "." does not match a line terminator, the first (.*) is
\* greedy and the match is the leftmost one.  The match therefore lies in
\* the first line of s that holds a digit; the greedy prefix runs up to the
\* last digit of that line, which alone is left for (\d+).

\* end (exclusive) of the line of s that starts at position i
RECURSIVE LineEnd(_, _)
LineEnd(s, i) ==
    IF i > Len(s) \/ IsLineTerminator(s[i]) THEN i ELSE LineEnd(s, i + 1)

\* position of the last digit of s in from..(to - 1), or 0
RECURSIVE LastDigit(_, _, _)
LastDigit(s, from, to) ==
    IF to <= from THEN 0
    ELSE IF IsDigit(s[to - 1]) THEN to - 1
    ELSE LastDigit(s, from, to - 1)

\* s.match(this._countRegex): None, or Some([prefix, number, suffix])
RECURSIVE MatchFrom(_, _)
MatchFrom(s, i) ==
    IF i > Len(s) THEN None
    ELSE LET e == LineEnd(s, i)
             d == LastDigit(s, i, e)
         IN  IF d = 0 THEN MatchFrom(s, e + 1)
             ELSE Some([prefix |-> SubSeq(s, i, d - 1),
                        number |-> SubSeq(s, d, d),
                        suffix |-> SubSeq(s, d + 1, e - 1)])

_countRegex(s) == MatchFrom(s, 1)

(* ------------------------------- DOM ----------------------------------- *)
\* A text node is [tag |-> "#text", data |-> string].  An element carries its
\* attributes in document order, its child nodes, and the state of a form
\* control: value is the dirty value (None while the control still shows its
\* value attribute), checked is its checkedness and files its selected files.
Text(data) == [tag |-> "#text", data |-> data]

Attr(name, value) == [name |-> name, value |-> value]

Elem(tag, attrs, children) ==
    [tag |-> tag, attrs |-> attrs, children |-> children,
     value |-> None, files |-> <<>>,
     checked |-> \E i \in 1..Len(attrs) : attrs[i].name = "checked"]

IsElement(node) == node.tag # "#text"

RECURSIVE Flatten(_)
Flatten(seqs) == IF seqs = <<>> THEN <<>> ELSE Head(seqs) \o Flatten(Tail(seqs))

hasAttribute(element, name) ==
    \E i \in 1..Len(element.attrs) : element.attrs[i].name = name

getAttribute(element, name) ==
    IF hasAttribute(element, name)
    THEN Some(element.attrs[CHOOSE i \in 1..Len(element.attrs) :
                                element.attrs[i].name = name].value)
    ELSE None

\* Node#textContent (getter): the data of every descendant text node, in order
RECURSIVE textContent(_)
textContent(node) ==
    IF ~IsElement(node) THEN node.data
    ELSE Flatten([i \in 1..Len(node.children) |-> textContent(node.children[i])])

\* Node#textContent (setter): every child is replaced by one text node
setTextContent(element, s) ==
    [element EXCEPT !.children = IF s = <<>> THEN <<>> ELSE <<Text(s)>>]

\* the element descendants of a node, in document order
RECURSIVE Descendants(_)
Descendants(node) ==
    IF ~IsElement(node) THEN <<>>
    ELSE Flatten([i \in 1..Len(node.children) |->
                    IF IsElement(node.children[i])
                    THEN <<node.children[i]>> \o Descendants(node.children[i])
                    ELSE <<>>])

querySelectorAll(element, tags) ==
    SelectSeq(Descendants(element), LAMBDA d : d.tag \in tags)

\* Element#querySelector: the first match in document order, or None
querySelector(element, tag) ==
    LET found == querySelectorAll(element, {tag})
    IN  IF found = <<>> THEN None ELSE Some(Head(found))

IsLabelOrLegend(element) == element.tag \in {"LABEL", "LEGEND"}

(* ---------------- templatize / fill / renumber ------------------------- *)
\* one attribute value or label text through _templatize
TemplatizeString(s) ==
    LET match == _countRegex(s)
    IN  IF match # None THEN match[1].prefix \o Marker \o match[1].suffix ELSE s

RECURSIVE _templatize(_)
_templatize(element) ==
    LET e1 == [element EXCEPT !.attrs =
                 [i \in 1..Len(element.attrs) |->
                    [element.attrs[i] EXCEPT !.value = TemplatizeString(@)]]]
        e2 == IF IsLabelOrLegend(e1) /\ _countRegex(textContent(e1)) # None
              THEN setTextContent(e1, TemplatizeString(textContent(e1)))
              ELSE e1
    IN  [e2 EXCEPT !.children =
           [i \in 1..Len(e2.children) |->
              IF IsElement(e2.children[i]) THEN _templatize(e2.children[i])
              ELSE e2.children[i]]]

RECURSIVE _fillTemplate(_, _)
_fillTemplate(element, number) ==
    LET e1 == [element EXCEPT !.attrs =
                 [i \in 1..Len(element.attrs) |->
                    [element.attrs[i] EXCEPT
                       !.value = ReplaceMarker(@, toString(number))]]]
        e2 == IF IsLabelOrLegend(e1)
              THEN setTextContent(e1, ReplaceMarker(textContent(e1), toString(number)))
              ELSE e1
    IN  [e2 EXCEPT !.children =
           [i \in 1..Len(e2.children) |->
              IF IsElement(e2.children[i])
              THEN _fillTemplate(e2.children[i], number)
              ELSE e2.children[i]]]

\* one attribute value or label text through _updateGroupNumber
RenumberString(s, number) ==
    LET match == _countRegex(s)
    IN  IF match # None
        THEN match[1].prefix \o toString(number) \o match[1].suffix
        ELSE s

RECURSIVE _updateGroupNumber(_, _)
_updateGroupNumber(element, number) ==
    LET e1 == [element EXCEPT !.attrs =
                 [i \in 1..Len(element.attrs) |->
                    [element.attrs[i] EXCEPT !.value = RenumberString(@, number)]]]
        e2 == IF IsLabelOrLegend(e1) /\ _countRegex(textContent(e1)) # None
              THEN setTextContent(e1, RenumberString(textContent(e1), number))
              ELSE e1
    IN  [e2 EXCEPT !.children =
           [i \in 1..Len(e2.children) |->
              IF IsElement(e2.children[i])
              THEN _updateGroupNumber(e2.children[i], number)
              ELSE e2.children[i]]]

(* --------------------------- the component ----------------------------- *)
\* In the operators below c is the component object: a record of its
\* attributes, its light-DOM children, its fields (_template, _groups,
\* _nextId), its shadow root, the value last given to setFormValue, and the
\* events dispatched and console lines written by the running handler.

observedAttributes == {"add-label", "remove-label", "min", "max"}

WarnMin == "warn: Invalid min value. Using default of 1."
WarnMaxInvalid == "warn: Invalid max value. Ignoring max limit."
WarnMaxNotAboveMin == "warn: max must be greater than min. Ignoring max limit."
ErrorTemplateEmpty == "error: <template> element is empty"
ErrorNoTemplate == "error: No template or initial group found."
ErrorCannotAdd == "error: Cannot add group without a template"

DefaultAddLabel == <<"A", "d", "d", " ", "A", "n", "o", "t", "h", "e", "r">>
DefaultRemoveLabel == <<"R", "e", "m", "o", "v", "e">>

addLabel(c) ==
    LET attr == c.attributes["add-label"]
    IN  IF attr = None \/ attr = Some(<<>>) THEN DefaultAddLabel ELSE attr[1]

removeLabel(c) ==
    LET attr == c.attributes["remove-label"]
    IN  IF attr = None \/ attr = Some(<<>>) THEN DefaultRemoveLabel ELSE attr[1]

\* MinInvalid without the comparison of the string with the parsed value, so
\* that a decimal or a zero-padded string passes
MinInvalid_NoRoundTrip(attr) ==
    /\ attr # None
    /\ attr # Some(<<>>)
    /\ LET value == parseInt(attr)
       IN  value = None \/ value[1] <= 0

\* is the min attribute present, non-empty and not a clean positive integer
MinInvalid(attr) ==
    /\ attr # None
    /\ attr # Some(<<>>)
    /\ LET value == parseInt(attr)
       IN  value = None \/ value[1] <= 0 \/ attr[1] # toString(value[1])

\* get min
min(c) ==
    LET attr == c.attributes["min"]
    IN  IF attr = None \/ attr = Some(<<>>) \/ MinInvalid(attr) THEN 1
        ELSE parseInt(attr)[1]

\* the console lines written by one read of this.min
MinConsole(c) == IF MinInvalid(c.attributes["min"]) THEN {WarnMin} ELSE {}

\* get max: None is null (no limit)
max(c) ==
    LET attr == c.attributes["max"]
        value == parseInt(attr)
    IN  IF attr = None THEN None
        ELSE IF value = None THEN None
        ELSE IF value[1] <= min(c) THEN None
        ELSE value

\* the console lines written by one read of this.max
MaxConsole(c) ==
    LET attr == c.attributes["max"]
        value == parseInt(attr)
    IN  IF attr = None THEN {}
        ELSE IF value = None THEN {WarnMaxInvalid}
        ELSE MinConsole(c) \cup
             (IF value[1] <= min(c) THEN {WarnMaxNotAboveMin} ELSE {})

Log(c, lines) == [c EXCEPT !.console = @ \cup lines]

(* ------------------------- form value ---------------------------------- *)
TypeCheckbox == <<"c", "h", "e", "c", "k", "b", "o", "x">>
TypeRadio == <<"r", "a", "d", "i", "o">>
TypeFile == <<"f", "i", "l", "e">>
On == <<"o", "n">>

ControlTags == {"INPUT", "SELECT", "TEXTAREA"}

\* input.name
ControlName(input) ==
    IF hasAttribute(input, "name") THEN getAttribute(input, "name")[1] ELSE <<>>

\* input.type, for the types the aggregation tells apart
ControlType(input) ==
    IF input.tag = "INPUT" /\ hasAttribute(input, "type")
    THEN getAttribute(input, "type")[1]
    ELSE <<>>

IsCheckable(input) == ControlType(input) \in {TypeCheckbox, TypeRadio}

\* input.defaultValue
DefaultValue(input) ==
    IF input.tag = "TEXTAREA" THEN textContent(input)
    ELSE IF hasAttribute(input, "value") THEN getAttribute(input, "value")[1]
    ELSE <<>>

\* option.value: the value attribute, or the text of the option
OptionValue(option) ==
    IF hasAttribute(option, "value") THEN getAttribute(option, "value")[1]
    ELSE trim(textContent(option))

\* the value of a <select> nobody has set: that of its first option with the
\* selected attribute, or of its first option
SelectedByDefault(select) ==
    LET options == querySelectorAll(select, {"OPTION"})
        marked == SelectSeq(options, LAMBDA o : hasAttribute(o, "selected"))
    IN  IF marked # <<>> THEN OptionValue(Head(marked))
        ELSE IF options # <<>> THEN OptionValue(Head(options))
        ELSE <<>>

\* select.value = v: the first option with that value is selected, and none
\* when no option has it, which leaves the value empty
SetSelectValue(select, v) ==
    IF \E o \in {querySelectorAll(select, {"OPTION"})[i] :
                    i \in 1..Len(querySelectorAll(select, {"OPTION"}))} :
          OptionValue(o) = v
    THEN [select EXCEPT !.value = Some(v)]
    ELSE [select EXCEPT !.value = Some(<<>>)]

\* String(undefined)
Undefined == <<"u", "n", "d", "e", "f", "i", "n", "e", "d">>

\* input.value
ControlValue(input) ==
    IF IsCheckable(input)
    THEN (IF hasAttribute(input, "value") THEN getAttribute(input, "value")[1] ELSE On)
    ELSE IF input.value # None THEN input.value[1]
    ELSE IF input.tag = "SELECT" THEN SelectedByDefault(input)
    ELSE DefaultValue(input)

\* ControlEntries that appends a plain control only when its value is not
\* empty
ControlEntries_SkipsEmpty(input) ==
    IF ControlName(input) = <<>> \/ hasAttribute(input, "disabled") THEN <<>>
    ELSE IF IsCheckable(input)
         THEN (IF input.checked
               THEN <<[name |-> ControlName(input),
                       value |-> IF ControlValue(input) = <<>> THEN On
                                 ELSE ControlValue(input)]>>
               ELSE <<>>)
    ELSE IF ControlType(input) = TypeFile
         THEN [i \in 1..Len(input.files) |->
                 [name |-> ControlName(input), value |-> input.files[i]]]
    ELSE IF ControlValue(input) = <<>> THEN <<>>
    ELSE <<[name |-> ControlName(input), value |-> ControlValue(input)]>>

\* the entries one control appends to the FormData
ControlEntries(input) ==
    IF ControlName(input) = <<>> \/ hasAttribute(input, "disabled") THEN <<>>
    ELSE IF IsCheckable(input)
         THEN (IF input.checked
               THEN <<[name |-> ControlName(input),
                       value |-> IF ControlValue(input) = <<>> THEN On
                                 ELSE ControlValue(input)]>>
               ELSE <<>>)
    ELSE IF ControlType(input) = TypeFile
         THEN [i \in 1..Len(input.files) |->
                 [name |-> ControlName(input), value |-> input.files[i]]]
    ELSE <<[name |-> ControlName(input), value |-> ControlValue(input)]>>

\* Aggregate that walks the groups from the last to the first
Aggregate_LastGroupFirst(groups) ==
    Flatten([g \in 1..Len(groups) |->
        LET inputs == querySelectorAll(groups[Len(groups) + 1 - g].element, ControlTags)
        IN  Flatten([i \in 1..Len(inputs) |-> ControlEntries(inputs[i])])])

\* the FormData built by _updateFormValue
Aggregate(groups) ==
    Flatten([g \in 1..Len(groups) |->
        LET inputs == querySelectorAll(groups[g].element, ControlTags)
        IN  Flatten([i \in 1..Len(inputs) |-> ControlEntries(inputs[i])])])

_updateFormValue(c) == [c EXCEPT !.formValue = Aggregate(c._groups)]

(* --------------------------- rendering --------------------------------- *)
canAdd(c) == max(c) = None \/ Len(c._groups) < max(c)[1]

canRemove(c) == Len(c._groups) > min(c)

_getRemoveLabel(c, element) ==
    LET label == querySelector(element, "LABEL")
        legend == querySelector(element, "LEGEND")
        labelText == IF label # None THEN trim(textContent(label[1]))
                     ELSE IF legend # None THEN trim(textContent(legend[1]))
                     ELSE <<>>
    IN  IF labelText # <<>> THEN removeLabel(c) \o <<" ">> \o labelText
        ELSE removeLabel(c)

\* The shadow root after _render: one region per group, with its remove
\* button when canRemove, and the add button when canAdd.  The group elements
\* are moved into their regions, so they leave the light DOM.
_render(c) ==
    LET c1 == Log(c, MaxConsole(c) \cup MinConsole(c))
        region(group) ==
            [groupId |-> group.id,
             remove |-> IF canRemove(c)
                        THEN Some([ariaLabel |-> _getRemoveLabel(c, group.element),
                                   label |-> removeLabel(c),
                                   disabled |-> FALSE])
                        ELSE None]
    IN  [c1 EXCEPT
           !.shadow = Some([groups |-> [i \in 1..Len(c._groups) |-> region(c._groups[i])],
                            add |-> IF canAdd(c)
                                    THEN Some([label |-> addLabel(c), disabled |-> FALSE])
                                    ELSE None]),
           !.children = SelectSeq(@, LAMBDA child :
                           \A i \in 1..Len(c._groups) : c._groups[i].element # child)]

(* ------------------------- add and remove ------------------------------ *)
\* Dispatch that reports the length before the operation's own change
Dispatch_CountBefore(c, type, group) ==
    [c EXCEPT !.events = Append(@, [type |-> type, group |-> group,
                                    groupCount |-> Len(c._groups) + 1])]

Dispatch(c, type, group) ==
    [c EXCEPT !.events = Append(@, [type |-> type, group |-> group,
                                    groupCount |-> Len(c._groups)])]

\* NewGroup that takes the id from the length, so that an id comes back after
\* a removal
NewGroup_IdFromLength(c) ==
    [id |-> Len(c._groups) + 1,
     element |-> _fillTemplate(c._template[1], Len(c._groups) + 1),
     index |-> Len(c._groups)]

\* NewGroup that numbers the new group by the length before the push
NewGroup_NumberIsLength(c) ==
    [id |-> c._nextId,
     element |-> _fillTemplate(c._template[1], Len(c._groups)),
     index |-> Len(c._groups)]

\* the group _addGroup creates
NewGroup(c) ==
    [id |-> c._nextId,
     element |-> _fillTemplate(c._template[1], Len(c._groups) + 1),
     index |-> Len(c._groups)]

\* AtMax with > for >=: one group too many is let in
AtMax_OffByOne(c) == max(c) # None /\ Len(c._groups) > max(c)[1]

\* is _addGroup refused because the collection is at max
AtMax(c) == max(c) # None /\ Len(c._groups) >= max(c)[1]

\* _addGroup without the check of the length against max
_addGroup_IgnoresMax(c) ==
    LET c1 == Log(c, MaxConsole(c))
    IN  IF c._template = None THEN Log(c1, {ErrorCannotAdd})
        ELSE LET group == NewGroup(c)
                 c2 == [c1 EXCEPT !._groups = Append(@, group), !._nextId = @ + 1]
             IN  Dispatch(_updateFormValue(_render(c2)), "form-repeatable:added", group)

\* _addGroup that fills the template itself, not a clone of it
_addGroup_FillsInPlace(c) ==
    LET c1 == Log(c, MaxConsole(c))
    IN  IF AtMax(c) THEN c1
        ELSE IF c._template = None THEN Log(c1, {ErrorCannotAdd})
        ELSE LET group == NewGroup(c)
                 c2 == [c1 EXCEPT !._groups = Append(@, group), !._nextId = @ + 1,
                                  !._template = Some(group.element)]
             IN  Dispatch(_updateFormValue(_render(c2)), "form-repeatable:added", group)

_addGroup(c) ==
    LET c1 == Log(c, MaxConsole(c))
    IN  IF AtMax(c) THEN c1
        ELSE IF c._template = None THEN Log(c1, {ErrorCannotAdd})
        ELSE LET group == NewGroup(c)
                 c2 == [c1 EXCEPT !._groups = Append(@, group), !._nextId = @ + 1]
             IN  Dispatch(_updateFormValue(_render(c2)), "form-repeatable:added", group)

\* findIndex whose -1 is taken for the last position, as splice(-1, 1) does
findIndex_LastWhenMissing(groups, groupId) ==
    IF \E i \in 1..Len(groups) : groups[i].id = groupId
    THEN CHOOSE i \in 1..Len(groups) : groups[i].id = groupId
    ELSE Len(groups)

\* this._groups.findIndex((g) => g.id === groupId), 1-based; 0 is -1
findIndex(groups, groupId) ==
    IF \E i \in 1..Len(groups) : groups[i].id = groupId
    THEN CHOOSE i \in 1..Len(groups) :
           /\ groups[i].id = groupId
           /\ \A j \in 1..(i - 1) : groups[j].id # groupId
    ELSE 0

\* this._groups.splice(index, 1)
splice(groups, index) ==
    SubSeq(groups, 1, index - 1) \o SubSeq(groups, index + 1, Len(groups))

_renumberGroups(c) ==
    [c EXCEPT !._groups =
       [i \in 1..Len(@) |-> [@[i] EXCEPT !.element = _updateGroupNumber(@, i)]]]

\* AtMin with < for <=: a collection at min still gives up a group
AtMin_OffByOne(c) == Len(c._groups) < min(c)

\* is _removeGroup refused because the collection is at min
AtMin(c) == Len(c._groups) <= min(c)

_removeGroup(c, groupId) ==
    LET index == findIndex(c._groups, groupId)
    IN  IF index = 0 THEN c
        ELSE LET c1 == Log(c, MinConsole(c))
             IN  IF AtMin(c) THEN c1
                 ELSE LET removed == c._groups[index]
                          c2 == [c1 EXCEPT !._groups = splice(@, index)]
                      IN  Dispatch(_updateFormValue(_render(_renumberGroups(c2))),
                                   "form-repeatable:removed", removed)

(* ------------------------- initialization ------------------------------ *)
\* position of the first <template> among the children, or 0
TemplateIndex(children) ==
    IF \E i \in 1..Len(children) : children[i].tag = "TEMPLATE"
    THEN CHOOSE i \in 1..Len(children) :
           /\ children[i].tag = "TEMPLATE"
           /\ \A j \in 1..(i - 1) : children[j].tag # "TEMPLATE"
    ELSE 0

\* templateEl.content.firstElementChild
firstElementChild(node) ==
    LET elements == SelectSeq(node.children, IsElement)
    IN  IF elements = <<>> THEN None ELSE Some(Head(elements))

\* _extractTemplate that also rewrites the numbers of an explicit template
_extractTemplate_TemplatizesExplicit(c) ==
    LET t == TemplateIndex(c.children)
    IN  IF t # 0
        THEN LET content == firstElementChild(c.children[t])
                 c1 == [c EXCEPT !._template = IF content = None THEN None
                                               ELSE Some(_templatize(content[1])),
                                 !.children = splice(@, t)]
             IN  IF content = None THEN Log(c1, {ErrorTemplateEmpty}) ELSE c1
        ELSE IF c.children = <<>> THEN Log(c, {ErrorNoTemplate})
        ELSE [c EXCEPT !._template = Some(_templatize(c.children[1]))]

\* _extractTemplate that takes an empty <template> without a diagnostic
_extractTemplate_SilentWhenEmpty(c) ==
    LET t == TemplateIndex(c.children)
    IN  IF t # 0
        THEN [c EXCEPT !._template = firstElementChild(c.children[t]),
                       !.children = splice(@, t)]
        ELSE IF c.children = <<>> THEN Log(c, {ErrorNoTemplate})
        ELSE [c EXCEPT !._template = Some(_templatize(c.children[1]))]

_extractTemplate(c) ==
    LET t == TemplateIndex(c.children)
    IN  IF t # 0
        THEN LET content == firstElementChild(c.children[t])
                 c1 == [c EXCEPT !._template = content,
                                 !.children = splice(@, t)]
             IN  IF content = None THEN Log(c1, {ErrorTemplateEmpty}) ELSE c1
        ELSE IF c.children = <<>> THEN Log(c, {ErrorNoTemplate})
        ELSE [c EXCEPT !._template = Some(_templatize(c.children[1]))]

\* _initializeGroups that announces every adopted child as an added group
_initializeGroups_AnnouncesChildren(c) ==
    IF c.children = <<>> /\ c._template # None
    THEN _addGroup(c)
    ELSE [c EXCEPT
            !._groups = @ \o [i \in 1..Len(c.children) |->
                                [id |-> c._nextId + i - 1,
                                 element |-> c.children[i],
                                 index |-> i - 1]],
            !._nextId = @ + Len(c.children),
            !.events = @ \o [i \in 1..Len(c.children) |->
                               [type |-> "form-repeatable:added",
                                group |-> [id |-> c._nextId + i - 1,
                                           element |-> c.children[i],
                                           index |-> i - 1],
                                groupCount |-> Len(c._groups) + i]]]

\* n calls of _addGroup
RECURSIVE AddTimes(_, _)
AddTimes(c, n) == IF n <= 0 THEN c ELSE AddTimes(_addGroup(c), n - 1)

\* _initializeGroups that synthesizes min groups, not one, from the template
_initializeGroups_SynthesizesMin(c) ==
    IF c.children = <<>> /\ c._template # None
    THEN AddTimes(c, min(c))
    ELSE [c EXCEPT
            !._groups = @ \o [i \in 1..Len(c.children) |->
                                [id |-> c._nextId + i - 1,
                                 element |-> c.children[i],
                                 index |-> i - 1]],
            !._nextId = @ + Len(c.children)]

\* _initializeGroups that adds groups after the adopted children until min is
\* met
_initializeGroups_PadsToMin(c) ==
    IF c.children = <<>> /\ c._template # None
    THEN _addGroup(c)
    ELSE AddTimes([c EXCEPT
                     !._groups = @ \o [i \in 1..Len(c.children) |->
                                         [id |-> c._nextId + i - 1,
                                          element |-> c.children[i],
                                          index |-> i - 1]],
                     !._nextId = @ + Len(c.children)],
                  IF c._template = None THEN 0
                  ELSE min(c) - Len(c._groups) - Len(c.children))

_initializeGroups(c) ==
    IF c.children = <<>> /\ c._template # None
    THEN _addGroup(c)
    ELSE [c EXCEPT
            !._groups = @ \o [i \in 1..Len(c.children) |->
                                [id |-> c._nextId + i - 1,
                                 element |-> c.children[i],
                                 index |-> i - 1]],
            !._nextId = @ + Len(c.children)]

connectedCallback(c) ==
    _updateFormValue(_render(_initializeGroups(_extractTemplate(c))))

\* attributeChangedCallback that stores the value and does not render
attributeChangedCallback_NoRender(c, name, newValue) ==
    [c EXCEPT !.attributes[name] = newValue]

\* setAttribute / removeAttribute of an observed attribute, followed by the
\* attributeChangedCallback the browser then runs
attributeChangedCallback(c, name, newValue) ==
    LET oldValue == c.attributes[name]
        c1 == [c EXCEPT !.attributes[name] = newValue]
    IN  IF oldValue # newValue /\ c.shadow # None THEN _render(c1) ELSE c1

(* ---------------------- form lifecycle callbacks ------------------------ *)
\* input.checked = input.defaultChecked, or input.value = input.defaultValue;
\* a <select> has no defaultValue property, so that it is given undefined
ResetControl(input) ==
    IF IsCheckable(input) THEN [input EXCEPT !.checked = hasAttribute(input, "checked")]
    ELSE IF ControlType(input) = TypeFile THEN [input EXCEPT !.files = <<>>]
    ELSE IF input.tag = "SELECT" THEN SetSelectValue(input, Undefined)
    ELSE [input EXCEPT !.value = Some(DefaultValue(input))]

\* every input, select and textarea below node is reset
RECURSIVE ResetControls(_)
ResetControls(node) ==
    IF ~IsElement(node) THEN node
    ELSE [node EXCEPT !.children =
            [i \in 1..Len(@) |->
               IF IsElement(@[i]) /\ @[i].tag \in ControlTags
               THEN ResetControl(ResetControls(@[i]))
               ELSE ResetControls(@[i])]]

formResetCallback(c) ==
    _updateFormValue(
        [c EXCEPT !._groups =
           [i \in 1..Len(@) |-> [@[i] EXCEPT !.element = ResetControls(@)]]])

\* input.disabled = disabled: the disabled attribute is added or removed
SetDisabled(element, disabled) ==
    IF disabled
    THEN (IF hasAttribute(element, "disabled") THEN element
          ELSE [element EXCEPT !.attrs = Append(@, Attr("disabled", <<>>))])
    ELSE [element EXCEPT !.attrs = SelectSeq(@, LAMBDA a : a.name # "disabled")]

\* every input, select, textarea and button below node gets the flag
RECURSIVE DisableControls(_, _)
DisableControls(node, disabled) ==
    IF ~IsElement(node) THEN node
    ELSE [node EXCEPT !.children =
            [i \in 1..Len(@) |->
               IF IsElement(@[i]) /\ @[i].tag \in ControlTags \cup {"BUTTON"}
               THEN SetDisabled(DisableControls(@[i], disabled), disabled)
               ELSE DisableControls(@[i], disabled)]]

\* the callback leaving the buttons of the shadow root as they are
formDisabledCallback_GroupsOnly(c, disabled) ==
    [c EXCEPT
       !._groups = [i \in 1..Len(@) |->
                      [@[i] EXCEPT !.element = DisableControls(@, disabled)]]]

formDisabledCallback(c, disabled) ==
    [c EXCEPT
       !._groups = [i \in 1..Len(@) |->
                      [@[i] EXCEPT !.element = DisableControls(@, disabled)]],
       !.shadow = IF @ = None THEN @
                  ELSE Some([groups |->
                               [i \in 1..Len(@[1].groups) |->
                                  [@[1].groups[i] EXCEPT
                                     !.remove = IF @ = None THEN @
                                                ELSE Some([@[1] EXCEPT !.disabled = disabled])]],
                             add |-> IF @[1].add = None THEN None
                                     ELSE Some([@[1].add[1] EXCEPT !.disabled = disabled])])]

(* ------------------------ user interaction ----------------------------- *)
\* number of controls in the subtree of node, node included
ControlCount(node) ==
    IF ~IsElement(node) THEN 0
    ELSE Len(querySelectorAll(node, ControlTags)) +
         (IF node.tag \in ControlTags THEN 1 ELSE 0)

\* the user's edit of one control: a checkbox or radio is toggled, a file
\* control gets two files selected (or its selection cleared), a <select>
\* gets its first option that is not the current one, any other control
\* takes the typed value
EditControl(input, typed) ==
    IF IsCheckable(input) THEN [input EXCEPT !.checked = ~@]
    ELSE IF input.tag = "SELECT"
         THEN LET others == SelectSeq(querySelectorAll(input, {"OPTION"}),
                                      LAMBDA o : OptionValue(o) # ControlValue(input))
              IN  IF others = <<>> THEN input
                  ELSE [input EXCEPT !.value = Some(OptionValue(Head(others)))]
    ELSE IF ControlType(input) = TypeFile
         THEN [input EXCEPT !.files = IF @ = <<>> THEN <<typed, typed \o typed>>
                                      ELSE <<>>]
    ELSE [input EXCEPT !.value = Some(typed)]

RECURSIVE SumCounts(_, _)
SumCounts(nodes, upTo) ==
    IF upTo = 0 THEN 0 ELSE SumCounts(nodes, upTo - 1) + ControlCount(nodes[upTo])

\* node with its k-th control descendant (in document order) edited
RECURSIVE EditNth(_, _, _)
EditNth(node, k, typed) ==
    [node EXCEPT !.children =
       [i \in 1..Len(@) |->
          LET before == SumCounts(@, i - 1)
              self == IF IsElement(@[i]) /\ @[i].tag \in ControlTags THEN 1 ELSE 0
          IN  IF ~IsElement(@[i]) \/ k <= before \/ k > before + ControlCount(@[i])
              THEN @[i]
              ELSE IF self = 1 /\ k = before + 1 THEN EditControl(@[i], typed)
              ELSE EditNth(@[i], k - before - self, typed)]]

\* an input or change event on a control of a group: the listener
\* _setupEventListeners put on it republishes the form value
InputEvent(c, g, k, typed) ==
    _updateFormValue([c EXCEPT !._groups[g].element = EditNth(@, k, typed)])

(* ------------------------------ pages ---------------------------------- *)
\* <div><label for="s-i">S i</label><input id="s-i" name="s[]"></div>
StopGroup(i) ==
    Elem("DIV", <<>>,
         <<Elem("LABEL", <<Attr("for", <<"s", "-">> \o toString(i))>>,
                <<Text(<<"S", " ">> \o toString(i))>>),
           Elem("INPUT", <<Attr("id", <<"s", "-">> \o toString(i)),
                           Attr("name", <<"s", "[", "]">>)>>, <<>>)>>)

\* <template><div><label for="e-{n}">E {n}</label>
\*                <input id="e-{n}" name="e[]"></div></template>
ExplicitTemplate ==
    Elem("TEMPLATE", <<>>,
         <<Elem("DIV", <<>>,
                <<Elem("LABEL", <<Attr("for", <<"e", "-">> \o Marker)>>,
                       <<Text(<<"E", " ">> \o Marker)>>),
                  Elem("INPUT", <<Attr("id", <<"e", "-">> \o Marker),
                                  Attr("name", <<"e", "[", "]">>)>>, <<>>)>>)>>)

\* <template></template>
EmptyTemplate == Elem("TEMPLATE", <<>>, <<>>)

\* n correctly numbered groups
StopGroups(n) == [i \in 1..n |-> StopGroup(i)]

\* the light-DOM children the page may supply
Pages ==
    {StopGroups(n) : n \in 0..MaxChildren}
    \cup {<<ExplicitTemplate>> \o StopGroups(n) : n \in 0..1}
    \cup {<<EmptyTemplate>> \o StopGroups(1)}

MinValues == {None, Some(<<"2">>), Some(<<"0">>)}
MaxValues == {None, Some(<<"2">>), Some(<<"3">>)}

FormPages == {StopGroups(n) : n \in 1..2} \cup {<<ExplicitTemplate>>}
FormMaxValues == {None, Some(<<"2">>)}

TypedValues == {<<"x">>}

\* "a[i]"
Indexed(letter, i) == <<letter, "[">> \o toString(i) \o <<"]">>

\* <div><label for="a-i">A i</label><input id="a-i" name="a[i]">
\*   <span><input type="checkbox" name="o[i]" value="opt" checked></span>
\*   <input type="file" name="f[i]"></div>
GroupA(i) ==
    Elem("DIV", <<>>,
         <<Elem("LABEL", <<Attr("for", <<"a", "-">> \o toString(i))>>,
                <<Text(<<"A", " ">> \o toString(i))>>),
           Elem("INPUT", <<Attr("id", <<"a", "-">> \o toString(i)),
                           Attr("name", Indexed("a", i))>>, <<>>),
           Elem("SPAN", <<>>,
                <<Elem("INPUT", <<Attr("type", TypeCheckbox),
                                  Attr("name", Indexed("o", i)),
                                  Attr("value", <<"o", "p", "t">>),
                                  Attr("checked", <<>>)>>, <<>>)>>),
           Elem("INPUT", <<Attr("type", TypeFile),
                           Attr("name", Indexed("f", i))>>, <<>>)>>)

\* <div><input type="checkbox" name="p[i]"><input value="u">
\*   <input name="r[i]" value="w" disabled></div>
GroupB(i) ==
    Elem("DIV", <<>>,
         <<Elem("INPUT", <<Attr("type", TypeCheckbox),
                           Attr("name", Indexed("p", i))>>, <<>>),
           Elem("INPUT", <<Attr("value", <<"u">>)>>, <<>>),
           Elem("INPUT", <<Attr("name", Indexed("r", i)),
                           Attr("value", <<"w">>),
                           Attr("disabled", <<>>)>>, <<>>)>>)

\* pages of one or two groups with a text control without value, a checked
\* checkbox with a value and a file control, or with an unchecked checkbox
\* without value, a control without name and a disabled control
ControlPages ==
    {[i \in 1..n |-> GroupA(i)] : n \in 1..2}
    \cup {[i \in 1..n |-> GroupB(i)] : n \in 1..2}

\* <fieldset><legend>Leg i</legend>
\*   <input id="t-i" name="t[]" maxlength="10" placeholder="City"></fieldset>
LimitGroup(i) ==
    Elem("FIELDSET", <<>>,
         <<Elem("LEGEND", <<>>, <<Text(<<"L", "e", "g", " ">> \o toString(i))>>),
           Elem("INPUT", <<Attr("id", <<"t", "-">> \o toString(i)),
                           Attr("name", <<"t", "[", "]">>),
                           Attr("maxlength", <<"1", "0">>),
                           Attr("placeholder", <<"C", "i", "t", "y">>)>>, <<>>)>>)

\* <template><div><label for="e-{n}">E {n}</label>
\*   <input id="e-{n}" name="e[]" maxlength="10"></div></template>
DigitTemplate ==
    Elem("TEMPLATE", <<>>,
         <<Elem("DIV", <<>>,
                <<Elem("LABEL", <<Attr("for", <<"e", "-">> \o Marker)>>,
                       <<Text(<<"E", " ">> \o Marker)>>),
                  Elem("INPUT", <<Attr("id", <<"e", "-">> \o Marker),
                                  Attr("name", <<"e", "[", "]">>),
                                  Attr("maxlength", <<"1", "0">>)>>, <<>>)>>)>>)

\* pages without a template, whose first child carries one-digit numbers
\* only or also a two-digit attribute, and pages with an explicit template,
\* with and without digits of its own, alone or before a group
TemplatePages ==
    {StopGroups(n) : n \in 1..2}
    \cup {<<LimitGroup(1)>>, <<LimitGroup(1), LimitGroup(2)>>}
    \cup {<<ExplicitTemplate>>, <<DigitTemplate>>,
          <<DigitTemplate, StopGroup(1)>>, <<StopGroup(1), DigitTemplate>>}

TemplateMinValues == {None, Some(<<"2">>)}
TemplateMaxValues == {None, Some(<<"3">>)}

\* pages from which no template can be extracted: an empty page, and an
\* empty <template> alone or before one or two groups
InertPages ==
    {<<>>} \cup {<<EmptyTemplate>> \o StopGroups(n) : n \in 0..2}

InertMinValues == {None, Some(<<"2">>)}
InertMaxValues == {None, Some(<<"2">>), Some(<<"3">>)}

\* the characters of the texts given to the count regex
TextAlphabet == {"s", "-", "1", "2"}

\* every text of at most MaxTextLen characters
Texts == UNION {[1..n -> TextAlphabet] : n \in 0..MaxTextLen}

\* attribute values and label texts of a template: a placeholder after a
\* prefix without or with a digit of its own and before a suffix
TemplateStrings ==
    {prefix \o Marker \o suffix :
        prefix \in {<<>>, <<"s", "-">>, <<"s", "2", "-">>},
        suffix \in {<<>>, <<"]">>, <<"-", "x">>}}

\* <div><label for="m-{n}-{n}">M {n} of {n}</label><p>Item {n}</p>
\*   <span><span><input id="m-{n}-{n}" name="m[{n}]"></span></span></div>
DoubleMarkerTemplate ==
    Elem("DIV", <<>>,
         <<Elem("LABEL", <<Attr("for", <<"m", "-">> \o Marker \o <<"-">> \o Marker)>>,
                <<Text(<<"M", " ">> \o Marker \o <<" ", "o", "f", " ">> \o Marker)>>),
           Elem("P", <<>>, <<Text(<<"I", "t", "e", "m", " ">> \o Marker)>>),
           Elem("SPAN", <<>>,
                <<Elem("SPAN", <<>>,
                       <<Elem("INPUT",
                              <<Attr("id", <<"m", "-">> \o Marker \o <<"-">> \o Marker),
                                Attr("name", <<"m", "[">> \o Marker \o <<"]">>)>>,
                              <<>>)>>)>>)>>)

\* <div><label>N {n} <input name="n[{n}]"></label></div>
NestedLabelTemplate ==
    Elem("DIV", <<>>,
         <<Elem("LABEL", <<>>,
                <<Text(<<"N", " ">> \o Marker \o <<" ">>),
                  Elem("INPUT", <<Attr("name", <<"n", "[">> \o Marker \o <<"]">>)>>,
                       <<>>)>>)>>)

\* the templates filled: extracted from a first child, explicit without and
\* with digits, with several placeholders in one string, at depth and in
\* plain text, and with a label around its control
FillTemplates ==
    {_templatize(StopGroup(1)), ExplicitTemplate.children[1],
     DigitTemplate.children[1], DoubleMarkerTemplate, NestedLabelTemplate}

\* the group elements renumbered
RenumberElements == {StopGroup(1), LimitGroup(1), GroupA(1)}

\* <div><label for="c-i">C i</label><input id="c-i" name="c[]" value="v">
\*   <input type="checkbox" name="k[]" checked></div>
ResetGroup(i) ==
    Elem("DIV", <<>>,
         <<Elem("LABEL", <<Attr("for", <<"c", "-">> \o toString(i))>>,
                <<Text(<<"C", " ">> \o toString(i))>>),
           Elem("INPUT", <<Attr("id", <<"c", "-">> \o toString(i)),
                           Attr("name", <<"c", "[", "]">>),
                           Attr("value", <<"v">>)>>, <<>>),
           Elem("INPUT", <<Attr("type", TypeCheckbox),
                           Attr("name", <<"k", "[", "]">>),
                           Attr("checked", <<>>)>>, <<>>)>>)

\* <div><select name="z[]"><option value="a">A</option>
\*   <option value="b" selected>B</option></select></div>
SelectGroup ==
    Elem("DIV", <<>>,
         <<Elem("SELECT", <<Attr("name", <<"z", "[", "]">>)>>,
                <<Elem("OPTION", <<Attr("value", <<"a">>)>>, <<Text(<<"A">>)>>),
                  Elem("OPTION", <<Attr("value", <<"b">>), Attr("selected", <<>>)>>,
                       <<Text(<<"B">>)>>)>>)>>)

\* pages of groups with a text control with a default value and a checkbox
\* checked by default, or with a <select> whose second option is selected by
\* default
ResetPages ==
    {[i \in 1..n |-> ResetGroup(i)] : n \in 1..2} \cup {<<SelectGroup>>}

\* <fieldset><legend>Guest i</legend><label for="g-i">Name</label>
\*   <input id="g-i" name="g-i"></fieldset>
GuestGroup(i) ==
    Elem("FIELDSET", <<>>,
         <<Elem("LEGEND", <<>>, <<Text(<<"G", " ">> \o toString(i))>>),
           Elem("LABEL", <<Attr("for", <<"g", "-">> \o toString(i))>>,
                <<Text(<<"N", "a", "m", "e">>)>>),
           Elem("INPUT", <<Attr("id", <<"g", "-">> \o toString(i)),
                           Attr("name", <<"g", "-">> \o toString(i))>>, <<>>)>>)

\* <div><input name="b[]"></div>
BareGroup == Elem("DIV", <<>>, <<Elem("INPUT", <<Attr("name", <<"b", "[", "]">>)>>, <<>>)>>)

\* pages of groups named by a label, by a legend followed by a label, or by
\* neither
LabelPages ==
    {StopGroups(n) : n \in 1..2}
    \cup {[i \in 1..n |-> GuestGroup(i)] : n \in 1..2}
    \cup {<<BareGroup>>}

\* the remove-label attribute a page may write
RemoveLabelValues == {None, Some(<<"X">>)}

\* the strings assigned to the addLabel and removeLabel properties
AssignedLabels == {<<"A", "d", "d">>, <<"X">>}

\* <div><label for="q-i">Q i</label><input id="q-i" name="q[]" value="5"></div>
QuantityGroup(i) ==
    Elem("DIV", <<>>,
         <<Elem("LABEL", <<Attr("for", <<"q", "-">> \o toString(i))>>,
                <<Text(<<"Q", " ">> \o toString(i))>>),
           Elem("INPUT", <<Attr("id", <<"q", "-">> \o toString(i)),
                           Attr("name", <<"q", "[", "]">>),
                           Attr("value", <<"5">>)>>, <<>>)>>)

\* pages of groups whose control has a number for default value
QuantityPages == {[i \in 1..n |-> QuantityGroup(i)] : n \in 1..2}

\* <div><label>N i <input name="n[i]"></label></div>
NestedGroup(i) ==
    Elem("DIV", <<>>,
         <<Elem("LABEL", <<>>,
                <<Text(<<"N", " ">> \o toString(i) \o <<" ">>),
                  Elem("INPUT", <<Attr("name", Indexed("n", i))>>, <<>>)>>)>>)

\* pages whose groups have a label around their control, given as children
\* or as an explicit template, and pages whose labels hold text only
NestedPages ==
    {[i \in 1..n |-> NestedGroup(i)] : n \in 1..2}
    \cup {<<Elem("TEMPLATE", <<>>, <<NestedLabelTemplate>>)>>}
    \cup {StopGroups(n) : n \in 1..2}

\* the min and max attribute strings a page may write: absent, empty, zero,
\* negative, decimal, zero-padded, space-padded, not a number, with a
\* trailing letter, and clean integers of one and two digits
MinStrings ==
    {None, Some(<<>>), Some(<<"0">>), Some(<<"-", "1">>), Some(<<"2", ".", "5">>),
     Some(<<"0", "3">>), Some(<<" ", "2">>), Some(<<"a", "b", "c">>),
     Some(<<"1">>), Some(<<"2">>), Some(<<"1", "2">>)}

MaxStrings ==
    {None, Some(<<>>), Some(<<"a", "b", "c">>), Some(<<"2", ".", "5">>),
     Some(<<"5", "x">>), Some(<<"-", "1">>), Some(<<"1">>), Some(<<"2">>),
     Some(<<"3">>)}

(* ------------------------------- state --------------------------------- *)
VARIABLES
    attributes,   \* the observed attributes: name -> None or Some(string)
    children,     \* this.children: the light-DOM child elements
    _template,    \* this._template: None or Some(element)
    _groups,      \* this._groups: sequence of [id, element, index]
    _nextId,      \* this._nextId
    shadow,       \* this.shadowRoot: None before the first _render
    formValue,    \* the FormData last passed to this._internals.setFormValue
    events,       \* the events the last handler dispatched, in order
    console,      \* the console lines the last handler wrote
    call          \* the handler that ran last, with its arguments

vars == <<attributes, children, _template, _groups, _nextId, shadow,
          formValue, events, console, call>>

\* the component object as the handlers see it, with nothing dispatched or
\* written yet
This ==
    [attributes |-> attributes, children |-> children, _template |-> _template,
     _groups |-> _groups, _nextId |-> _nextId, shadow |-> shadow,
     formValue |-> formValue, events |-> <<>>, console |-> {}]

\* the component object after the handler
Becomes(c) ==
    \E r \in {c} :
        /\ attributes' = r.attributes
        /\ children' = r.children
        /\ _template' = r._template
        /\ _groups' = r._groups
        /\ _nextId' = r._nextId
        /\ shadow' = r.shadow
        /\ formValue' = r.formValue
        /\ events' = r.events
        /\ console' = r.console

\* the constructor has run; the page supplies the children and attributes
InitWith(pages, mins, maxes) ==
    /\ attributes \in [observedAttributes -> mins \cup maxes \cup {None}]
    /\ attributes["min"] \in mins
    /\ attributes["max"] \in maxes
    /\ attributes["add-label"] = None
    /\ attributes["remove-label"] = None
    /\ children \in pages
    /\ _template = None
    /\ _groups = <<>>
    /\ _nextId = 1
    /\ shadow = None
    /\ formValue = <<>>
    /\ events = <<>>
    /\ console = {}
    /\ call = [op |-> "constructor"]

Init == InitWith(Pages, MinValues, MaxValues)

Connected == shadow # None

\* the browser inserts the element into a document (again)
ConnectedCallback(cap) ==
    \E c \in {connectedCallback(This)} :
        /\ c._nextId <= cap + 1
        /\ Becomes(c)
        /\ call' = [op |-> "connectedCallback"]

AttributeChanged(name, newValue) ==
    /\ Becomes(attributeChangedCallback(This, name, newValue))
    /\ call' = [op |-> "attributeChangedCallback", name |-> name]

Add(cap) ==
    /\ Connected
    /\ \E c \in {_addGroup(This)} :
           /\ c._nextId <= cap + 1
           /\ Becomes(c)
    /\ call' = [op |-> "_addGroup"]

Remove(groupId) ==
    /\ Connected
    /\ Becomes(_removeGroup(This, groupId))
    /\ call' = [op |-> "_removeGroup", groupId |-> groupId]

\* the user edits an enabled control of group g
Input(g, typed) ==
    /\ Connected
    /\ g \in 1..Len(_groups)
    /\ \E k \in 1..Len(querySelectorAll(_groups[g].element, ControlTags)) :
           /\ ~hasAttribute(querySelectorAll(_groups[g].element, ControlTags)[k],
                            "disabled")
           /\ Becomes(InputEvent(This, g, k, typed))
    /\ call' = [op |-> "input", group |-> g]

FormReset ==
    /\ Connected
    /\ Becomes(formResetCallback(This))
    /\ call' = [op |-> "formResetCallback"]

FormDisabled(disabled) ==
    /\ Connected
    /\ Becomes(formDisabledCallback(This, disabled))
    /\ call' = [op |-> "formDisabledCallback", disabled |-> disabled]

\* the page reads element.min
ReadMin ==
    /\ console' = MinConsole(This)
    /\ events' = <<>>
    /\ call' = [op |-> "get min", result |-> min(This)]
    /\ UNCHANGED <<attributes, children, _template, _groups, _nextId, shadow,
                   formValue>>

\* the page reads element.max
ReadMax ==
    /\ console' = MaxConsole(This)
    /\ events' = <<>>
    /\ call' = [op |-> "get max", result |-> max(This)]
    /\ UNCHANGED <<attributes, children, _template, _groups, _nextId, shadow,
                   formValue>>

\* the attribute read by the getter of a property
PropertyAttribute(name) ==
    CASE name = "addLabel" -> "add-label"
      [] name = "removeLabel" -> "remove-label"
      [] name = "min" -> "min"
      [] name = "max" -> "max"

\* element.addLabel = text, element.removeLabel = text: the class defines get
\* addLabel and get removeLabel and no setter, so that the assignment writes
\* nothing (and throws in strict code); read is what the getter then returns
SetLabel(name, text) ==
    /\ call' = [op |-> "set label", name |-> name, text |-> text,
                read |-> IF name = "addLabel" THEN addLabel(This) ELSE removeLabel(This)]
    /\ UNCHANGED <<attributes, children, _template, _groups, _nextId, shadow,
                   formValue, events, console>>

\* element.min = number, element.max = number: no setter either
SetNumber(name, number) ==
    /\ call' = [op |-> "set number", name |-> name, number |-> number,
                read |-> IF name = "min" THEN Some(min(This)) ELSE max(This)]
    /\ UNCHANGED <<attributes, children, _template, _groups, _nextId, shadow,
                   formValue, events, console>>

\* text.match(this._countRegex)
Match(text) ==
    /\ call' = [op |-> "match", text |-> text, result |-> _countRegex(text)]
    /\ UNCHANGED <<attributes, children, _template, _groups, _nextId, shadow,
                   formValue, events, console>>

\* attr.value.replace(/{n}/g, number), and the match of the count regex on
\* what it returns
Replace(text, number) ==
    /\ call' = [op |-> "replace", text |-> text, number |-> number,
                result |-> ReplaceMarker(text, toString(number)),
                match |-> _countRegex(ReplaceMarker(text, toString(number)))]
    /\ UNCHANGED <<attributes, children, _template, _groups, _nextId, shadow,
                   formValue, events, console>>

\* this._fillTemplate(element, number) on a clone of template
Fill(template, number) ==
    /\ call' = [op |-> "_fillTemplate", template |-> template, number |-> number,
                result |-> _fillTemplate(template, number)]
    /\ UNCHANGED <<attributes, children, _template, _groups, _nextId, shadow,
                   formValue, events, console>>

\* this._updateGroupNumber(element, number), once and once more
Renumber(element, number) ==
    /\ call' = [op |-> "_updateGroupNumber", element |-> element,
                number |-> number,
                once |-> _updateGroupNumber(element, number),
                twice |-> _updateGroupNumber(_updateGroupNumber(element, number),
                                             number)]
    /\ UNCHANGED <<attributes, children, _template, _groups, _nextId, shadow,
                   formValue, events, console>>

\* the group _addGroup fills with number a, renumbered to b as
\* _renumberGroups does after a removal, and the group filled with b
RenumberFilled(template, a, b) ==
    /\ call' = [op |-> "renumber filled", template |-> template, a |-> a, b |-> b,
                renumbered |-> _updateGroupNumber(_fillTemplate(template, a), b),
                filled |-> _fillTemplate(template, b)]
    /\ UNCHANGED <<attributes, children, _template, _groups, _nextId, shadow,
                   formValue, events, console>>

\* what a listener of the added or removed event does, once: it adds a
\* group, removes the first group or the last one the page can get, or
\* writes the max attribute
Listeners(cap) ==
    {[kind |-> "add", groupId |-> 0, value |-> None]}
    \cup {[kind |-> "remove", groupId |-> g, value |-> None] : g \in {1, cap}}
    \cup {[kind |-> "max", groupId |-> 0, value |-> v] :
             v \in {None, Some(toString(cap - 1))}}

RunListener(c, listener) ==
    CASE listener.kind = "add" -> _addGroup(c)
      [] listener.kind = "remove" -> _removeGroup(c, listener.groupId)
      [] listener.kind = "max" -> attributeChangedCallback(c, "max", listener.value)

\* dispatchEvent is the last statement of _addGroup and of _removeGroup: the
\* listener runs on the component as the operation leaves it, and what it
\* calls runs to its end before dispatchEvent returns
DispatchTo(c, cap, listener) ==
    \E nested \in {RunListener(c, listener)} :
        /\ nested._nextId <= cap + 1
        /\ Becomes(nested)
        /\ call' = [op |-> "listener", seen |-> c, listener |-> listener]

\* an accepted add, with a listener of form-repeatable:added
AddThen(cap, listener) ==
    /\ Connected
    /\ \E c \in {_addGroup(This)} :
           /\ c.events # <<>>
           /\ DispatchTo(c, cap, listener)

\* an accepted remove, with a listener of form-repeatable:removed
RemoveThen(groupId, cap, listener) ==
    /\ Connected
    /\ \E c \in {_removeGroup(This, groupId)} :
           /\ c.events # <<>>
           /\ DispatchTo(c, cap, listener)

\* the structural operations, over every page and min/max configuration
Next ==
    \/ ConnectedCallback(MaxId)
    \/ \E value \in MinValues : AttributeChanged("min", value)
    \/ \E value \in MaxValues : AttributeChanged("max", value)
    \/ Add(MaxId)
    \/ \E groupId \in 1..(MaxId + 1) : Remove(groupId)

Spec == Init /\ [][Next]_vars

\* a page of LargeChildren groups with min="8" and no max, so that the
\* collection passes ten groups
InitLarge == InitWith({StopGroups(LargeChildren)}, {Some(<<"8">>)}, {None})

NextLarge ==
    \/ ConnectedCallback(MaxIdLarge)
    \/ Add(MaxIdLarge)
    \/ \E groupId \in 1..(MaxIdLarge + 1) : Remove(groupId)

SpecLarge == InitLarge /\ [][NextLarge]_vars

\* every operation, on the pages of FormPages with the default min
InitForm == InitWith(FormPages, {None}, FormMaxValues)

NextForm ==
    \/ ConnectedCallback(MaxIdForm)
    \/ \E value \in FormMaxValues : AttributeChanged("max", value)
    \/ Add(MaxIdForm)
    \/ \E groupId \in 1..(MaxIdForm + 1) : Remove(groupId)
    \/ \E g \in 1..MaxIdForm, typed \in TypedValues : Input(g, typed)
    \/ FormReset
    \/ \E disabled \in BOOLEAN : FormDisabled(disabled)

SpecForm == InitForm /\ [][NextForm]_vars

\* the min and max attributes written with every string of MinStrings and
\* MaxStrings, before and after connection, and the getters read
InitConfig == InitWith({StopGroups(1)}, MinStrings, MaxStrings)

NextConfig ==
    \/ ConnectedCallback(MaxIdConfig)
    \/ \E value \in MinStrings : AttributeChanged("min", value)
    \/ \E value \in MaxStrings : AttributeChanged("max", value)
    \/ ReadMin
    \/ ReadMax

SpecConfig == InitConfig /\ [][NextConfig]_vars

\* add, remove and the user's edits on the pages of ControlPages
InitControls == InitWith(ControlPages, {None}, {None})

NextControls ==
    \/ ConnectedCallback(MaxIdControls)
    \/ Add(MaxIdControls)
    \/ \E groupId \in 1..(MaxIdControls + 1) : Remove(groupId)
    \/ \E g \in 1..MaxIdControls, typed \in TypedValues : Input(g, typed)

SpecControls == InitControls /\ [][NextControls]_vars

\* connection, add and remove on the pages of TemplatePages
InitTemplate == InitWith(TemplatePages, TemplateMinValues, TemplateMaxValues)

NextTemplate ==
    \/ ConnectedCallback(MaxIdTemplate)
    \/ Add(MaxIdTemplate)
    \/ \E groupId \in 1..(MaxIdTemplate + 1) : Remove(groupId)

SpecTemplate == InitTemplate /\ [][NextTemplate]_vars

\* connection, add, remove and max changes on the pages of InertPages
InitInert == InitWith(InertPages, InertMinValues, InertMaxValues)

NextInert ==
    \/ ConnectedCallback(MaxIdInert)
    \/ \E value \in InertMinValues : AttributeChanged("min", value)
    \/ \E value \in InertMaxValues : AttributeChanged("max", value)
    \/ Add(MaxIdInert)
    \/ \E groupId \in 1..(MaxIdInert + 1) : Remove(groupId)

SpecInert == InitInert /\ [][NextInert]_vars

\* add, remove, the user's edits and form reset on the pages of ResetPages
InitReset == InitWith(ResetPages, {None}, {None})

NextReset ==
    \/ ConnectedCallback(MaxIdReset)
    \/ Add(MaxIdReset)
    \/ \E groupId \in 1..(MaxIdReset + 1) : Remove(groupId)
    \/ \E g \in 1..MaxIdReset, typed \in TypedValues : Input(g, typed)
    \/ FormReset

SpecReset == InitReset /\ [][NextReset]_vars

\* add and remove on the pages of LabelPages, with the remove-label
\* attribute written and withdrawn
InitLabel == InitWith(LabelPages, {None}, {None})

NextLabel ==
    \/ ConnectedCallback(MaxIdLabel)
    \/ \E value \in RemoveLabelValues : AttributeChanged("remove-label", value)
    \/ Add(MaxIdLabel)
    \/ \E groupId \in 1..(MaxIdLabel + 1) : Remove(groupId)

SpecLabel == InitLabel /\ [][NextLabel]_vars

\* the properties assigned by the page, before and after connection, and
\* with the attributes written by the page as well
InitProperty == InitWith({StopGroups(1)}, {None}, {None})

NextProperty ==
    \/ ConnectedCallback(MaxIdProperty)
    \/ \E value \in {None, Some(<<"2">>)} : AttributeChanged("min", value)
    \/ \E value \in {None, Some(<<"X">>)} : AttributeChanged("add-label", value)
    \/ Add(MaxIdProperty)
    \/ \E groupId \in 1..(MaxIdProperty + 1) : Remove(groupId)
    \/ \E name \in {"addLabel", "removeLabel"}, text \in AssignedLabels : SetLabel(name, text)
    \/ \E name \in {"min", "max"}, number \in 1..MaxAssigned : SetNumber(name, number)

SpecProperty == InitProperty /\ [][NextProperty]_vars

\* add and remove with a listener that adds, removes or writes max, on a
\* page of LargeChildren groups with min set to their number
InitReentrant ==
    InitWith({StopGroups(LargeChildren)}, {Some(toString(LargeChildren))}, {None})

NextReentrant ==
    \/ ConnectedCallback(MaxIdReentrant)
    \/ \E listener \in Listeners(MaxIdReentrant) : AddThen(MaxIdReentrant, listener)
    \/ \E groupId \in {2, MaxIdReentrant - 1}, listener \in Listeners(MaxIdReentrant) :
          RemoveThen(groupId, MaxIdReentrant, listener)

SpecReentrant == InitReentrant /\ [][NextReentrant]_vars

\* add, remove and the user's edits on the pages of QuantityPages
InitQuantity == InitWith(QuantityPages, {None}, {None})

NextQuantity ==
    \/ ConnectedCallback(MaxIdQuantity)
    \/ Add(MaxIdQuantity)
    \/ \E groupId \in 1..(MaxIdQuantity + 1) : Remove(groupId)
    \/ \E g \in 1..MaxIdQuantity, typed \in TypedValues : Input(g, typed)

SpecQuantity == InitQuantity /\ [][NextQuantity]_vars

\* connection, add and remove on the pages of NestedPages
InitNested == InitWith(NestedPages, {None}, {None})

NextNested ==
    \/ ConnectedCallback(MaxIdNested)
    \/ Add(MaxIdNested)
    \/ \E groupId \in 1..(MaxIdNested + 1) : Remove(groupId)

SpecNested == InitNested /\ [][NextNested]_vars

\* the numbers a group is filled with and then renumbered to: one digit
\* and two
RefillNumbers == {1, 2, MaxNumber - 2}

\* the pages whose one child is a group element of RenumberElements, or a
\* <template> holding a template of FillTemplates
PurePages ==
    {<<element>> : element \in RenumberElements}
    \cup {<<Elem("TEMPLATE", <<>>, <<template>>)>> : template \in FillTemplates}

\* the count regex, the placeholder replacement, _fillTemplate and
\* _updateGroupNumber applied to texts, templates and group elements
InitPure == InitWith(PurePages, {None}, {None})

NextPure ==
    \/ \E text \in Texts : Match(text)
    \/ \E text \in TemplateStrings, number \in 1..MaxNumber : Replace(text, number)
    \/ \E template \in FillTemplates, number \in 1..MaxNumber : Fill(template, number)
    \/ \E element \in RenumberElements, number \in 1..MaxNumber :
          Renumber(element, number)
    \/ \E template \in FillTemplates, a \in RefillNumbers, b \in RefillNumbers :
          RenumberFilled(template, a, b)

SpecPure == InitPure /\ [][NextPure]_vars

(* ======================= properties of the code ======================== *)
Ids(groups) == {groups[i].id : i \in 1..Len(groups)}

\* the value of the rightmost maximal run of digits of s (s holds a digit)
RightmostNumber(s) ==
    LET last == LastDigit(s, 1, Len(s) + 1)
        first == CHOOSE f \in 1..last :
                   /\ \A k \in f..last : IsDigit(s[k])
                   /\ (f = 1 \/ ~IsDigit(s[f - 1]))
    IN  DigitRun(s, first, 0)

HasDigit(s) == \E k \in 1..Len(s) : IsDigit(s[k])

\* the attribute values and label/legend texts of element and its
\* descendants that carry a number
NumberedStrings(element) ==
    LET nodes == <<element>> \o Descendants(element)
    IN  UNION {
          {nodes[i].attrs[a].value : a \in 1..Len(nodes[i].attrs)}
          \cup (IF IsLabelOrLegend(nodes[i]) THEN {textContent(nodes[i])} ELSE {})
          : i \in 1..Len(nodes)}

\* every numbered string of element shows number
DisplaysNumber(element, number) ==
    \A s \in NumberedStrings(element) : HasDigit(s) => RightmostNumber(s) = number

\* every group at 0-based position i shows i + 1
Numbered(groups) ==
    \A i \in 1..Len(groups) : DisplaysNumber(groups[i].element, i)

\* the handler left the component as it was
Untouched ==
    UNCHANGED <<attributes, children, _template, _groups, _nextId, shadow, formValue>>

\* the step is a call of _addGroup on a collection at its effective max
AddAtMax ==
    /\ call'.op = "_addGroup"
    /\ max(This) # None
    /\ Len(_groups) >= max(This)[1]

\* the step is a call of _removeGroup on a collection at or below min
RemoveAtMin ==
    /\ call'.op = "_removeGroup"
    /\ Len(_groups) <= min(This)

\* the step is a call of _addGroup that the code must accept
AddAccepted ==
    /\ call'.op = "_addGroup"
    /\ _template # None
    /\ (max(This) = None \/ Len(_groups) < max(This)[1])

\* the step is a call of _removeGroup that the code must accept
RemoveAccepted ==
    /\ call'.op = "_removeGroup"
    /\ call'.groupId \in Ids(_groups)
    /\ Len(_groups) > min(This)

(* C1: after any sequence of add and remove calls on a page whose groups are
   correctly numbered, the group at 0-based position i shows i + 1 in every
   attribute value and label/legend text that carries its number, for every
   collection size, ten and more included. *)
C1_NumberingAtEverySize == Numbered(_groups)

(* C2: in every state after initialization the number of groups is at least
   the effective min and, when the effective max is set, at most it. *)
C2_LengthWithinMinMax ==
    Connected =>
        /\ Len(_groups) >= min(This)
        /\ (max(This) = None \/ Len(_groups) <= max(This)[1])

(* C2, amended: after initialization a step that makes the collection longer
   ends at or below the effective max (when set) and a step that makes it
   shorter ends at or above the effective min; the length is outside
   [min, max] only as the page's children or a min/max attribute change
   left it. *)
C2_StepsKeepMinMax ==
    [][Connected =>
         /\ Len(_groups') > Len(_groups) =>
              (max(This)' = None \/ Len(_groups') <= max(This)'[1])
         /\ Len(_groups') < Len(_groups) => Len(_groups') >= min(This)']_vars

\* an accepted add has just filled the collection up to its max
C2_Witness ==
    /\ call.op = "_addGroup"
    /\ events # <<>>
    /\ max(This) # None
    /\ Len(_groups) = max(This)[1]

(* C3: add() on a collection at its effective max, and remove(id) on one at
   or below min, leave the collection, the id counter, the rendered output
   and the published form value unchanged, dispatch no event and write no
   diagnostic. *)
C3_RefusalsAreSilent ==
    [][AddAtMax \/ RemoveAtMin =>
         Untouched /\ events' = <<>> /\ console' = {}]_vars

(* C3, amended: such a refused add() or remove(id) leaves the collection, the
   id counter, the rendered output and the published form value unchanged
   and dispatches no event; it writes no diagnostic of its own: the console
   stays empty when the min attribute is valid, and otherwise holds only the
   invalid-min warning that every read of that attribute repeats. *)
C3_RefusalsChangeNothing ==
    [][AddAtMax \/ RemoveAtMin =>
         /\ Untouched
         /\ events' = <<>>
         /\ console' \subseteq {WarnMin}
         /\ (~MinInvalid(attributes["min"]) => console' = {})]_vars

\* _addGroup has just been refused on a collection at its max
C3_Witness ==
    /\ call.op = "_addGroup"
    /\ events = <<>>
    /\ max(This) # None
    /\ Len(_groups) >= max(This)[1]

(* C4: remove(id) with an id that no current group has, never issued or
   already removed, changes nothing in any state: collection, numbering,
   rendered output and published value stay, no event is dispatched and
   nothing is written to the console. *)
C4_UnknownIdIgnored ==
    [][call'.op = "_removeGroup" /\ call'.groupId \notin Ids(_groups) =>
         Untouched /\ events' = <<>> /\ console' = {}]_vars

\* _removeGroup has just been called with the id of a group removed earlier,
\* on a collection that is above min
C4_Witness ==
    /\ call.op = "_removeGroup"
    /\ events = <<>>
    /\ call.groupId \notin Ids(_groups)
    /\ call.groupId < _nextId
    /\ Len(_groups) > min(This)

\* no attribute value or label/legend text of element still holds a {n}
NoMarker(element) ==
    \A s \in NumberedStrings(element) : \A k \in 1..Len(s) : ~OccursAt(s, Marker, k)

(* C5: an accepted add() (template present, max unset or length below max)
   appends exactly one group at the end, filled from the template with the
   previous length plus one, makes the collection one longer and leaves the
   id, position and content of every earlier group as they were. *)
C5_AddAppendsOneFilledGroup ==
    [][AddAccepted =>
         /\ Len(_groups') = Len(_groups) + 1
         /\ SubSeq(_groups', 1, Len(_groups)) = _groups
         /\ _groups'[Len(_groups')].element =
                _fillTemplate(_template[1], Len(_groups) + 1)
         /\ DisplaysNumber(_groups'[Len(_groups')].element, Len(_groups) + 1)
         /\ NoMarker(_groups'[Len(_groups')].element)]_vars

\* an accepted add has just appended a group behind at least two others
C5_Witness ==
    /\ call.op = "_addGroup"
    /\ events # <<>>
    /\ Len(_groups) >= 3

(* C6: an accepted remove(id) (id present, length above min) removes the group
   with that id and no other, makes the collection one shorter, keeps the
   order of the others, and renumbers them so that the group at position i
   shows i + 1, whichever position was removed. *)
C6_RemoveTakesOneAndRenumbers ==
    [][RemoveAccepted =>
         /\ Len(_groups') = Len(_groups) - 1
         /\ [i \in 1..Len(_groups') |-> _groups'[i].id] =
                [i \in 1..Len(_groups') |->
                   SelectSeq(_groups, LAMBDA g : g.id # call'.groupId)[i].id]
         /\ Numbered(_groups')]_vars

(* C7: after initialization the length changes only by an accepted add (one
   more) or an accepted remove (one less); an attribute change, a re-render,
   a form reset, disabling, a user's input and a reconnection leave it
   unchanged. *)
C7_LengthChangesOnlyByAddRemove ==
    [][Connected /\ Len(_groups') # Len(_groups) =>
         \/ AddAccepted /\ Len(_groups') = Len(_groups) + 1
         \/ RemoveAccepted /\ Len(_groups') = Len(_groups) - 1]_vars

\* the ids of groups grow along the collection and lie below nextId
IdsInOrder(groups, nextId) ==
    /\ \A i \in 1..Len(groups) : groups[i].id < nextId
    /\ \A i, j \in 1..Len(groups) : i < j => groups[i].id < groups[j].id

(* C8: group ids are unique and strictly increasing in creation order for the
   life of the component: every id a step issues lies at or above the old
   _nextId and below the new one, so no id is shared with a current or removed
   group or issued again after a removal, and a refused add consumes no id. *)
C8_IdsUniqueAndIncreasing ==
    [][/\ IdsInOrder(_groups, _nextId)
       /\ IdsInOrder(_groups', _nextId')
       /\ _nextId' >= _nextId
       /\ Ids(_groups') \ Ids(_groups) = _nextId..(_nextId' - 1)
       /\ (call'.op = "_addGroup" /\ events' = <<>> => _nextId' = _nextId)]_vars

\* an accepted add has just issued an id after an earlier group was removed
C8_Witness ==
    /\ call.op = "_addGroup"
    /\ events # <<>>
    /\ _groups[Len(_groups)].id = _nextId - 1
    /\ Len(_groups) < _nextId - 1

(* C9: an accepted add dispatches exactly one form-repeatable:added event with
   the new group and the resulting length, an accepted remove exactly one
   form-repeatable:removed event with the removed group and the resulting
   length, and a refused or ignored add or remove dispatches nothing. *)
C9_OneEventPerAcceptedOperation ==
    [][/\ AddAccepted =>
            events' = <<[type |-> "form-repeatable:added",
                         group |-> _groups'[Len(_groups')],
                         groupCount |-> Len(_groups) + 1]>>
       /\ RemoveAccepted =>
            events' = <<[type |-> "form-repeatable:removed",
                         group |-> _groups[CHOOSE i \in 1..Len(_groups) :
                                             _groups[i].id = call'.groupId],
                         groupCount |-> Len(_groups) - 1]>>
       /\ call'.op = "_addGroup" /\ ~AddAccepted => events' = <<>>
       /\ call'.op = "_removeGroup" /\ ~RemoveAccepted => events' = <<>>]_vars

\* an accepted remove has just dispatched its event
C9_Witness ==
    /\ call.op = "_removeGroup"
    /\ Len(events) = 1
    /\ events[1].type = "form-repeatable:removed"
    /\ events[1].group.id = call.groupId

(* C10: in every rendered state the add button is present exactly when max is
   unset or the length is below max, and every group's region has a remove
   button exactly when the length is above min, for the min and max in
   effect now; the regions are those of the current groups, in order. *)
C10_AffordancesMatchMinMax ==
    Connected =>
        /\ (shadow[1].add # None) <=>
               (max(This) = None \/ Len(_groups) < max(This)[1])
        /\ Len(shadow[1].groups) = Len(_groups)
        /\ \A i \in 1..Len(_groups) :
             /\ shadow[1].groups[i].groupId = _groups[i].id
             /\ (shadow[1].groups[i].remove # None) <=> Len(_groups) > min(This)

\* a max attribute change has just taken the add button away while the remove
\* buttons stay
C10_Witness ==
    /\ Connected
    /\ call.op = "attributeChangedCallback"
    /\ call.name = "max"
    /\ shadow[1].add = None
    /\ Len(_groups) >= 2
    /\ \A i \in 1..Len(_groups) : shadow[1].groups[i].remove # None

(* ------------------- min and max attribute strings ---------------------- *)
\* s is a clean positive integer decimal string: digits only, no leading zero
IsCleanPositive(s) ==
    /\ s # <<>>
    /\ \A k \in 1..Len(s) : IsDigit(s[k])
    /\ s[1] # "0"

\* s is an integer decimal string: digits only, after an optional minus sign
IsIntegerString(s) ==
    LET digits == IF s # <<>> /\ s[1] = "-" THEN Tail(s) ELSE s
    IN  digits # <<>> /\ \A k \in 1..Len(digits) : IsDigit(digits[k])

IntegerValue(s) ==
    IF s[1] = "-" THEN 0 - DigitRun(s, 2, 0) ELSE DigitRun(s, 1, 0)

\* the min in effect for the value attr of the min attribute
EffectiveMin(attr) ==
    IF attr # None /\ IsCleanPositive(attr[1]) THEN DigitRun(attr[1], 1, 0) ELSE 1

(* C11: for every min attribute string that is not a clean positive integer
   decimal string ("0", "-1", "2.5", "03", "abc", the empty string) a read of
   min gives the default 1 and reports a warning; for a clean positive integer
   string it gives that integer and reports nothing. *)
C11_EveryUncleanMinWarns ==
    call.op = "get min" /\ attributes["min"] # None =>
        IF IsCleanPositive(attributes["min"][1])
        THEN call.result = DigitRun(attributes["min"][1], 1, 0) /\ console = {}
        ELSE call.result = 1 /\ console = {WarnMin}

(* C11, amended: for every non-empty min attribute string that is not a clean
   positive integer decimal string a read of min gives the default 1 and
   reports a warning; for the empty string, as for an absent attribute, it
   gives the default 1 and reports nothing; for a clean positive integer
   string it gives that integer and reports nothing. *)
C11_NonEmptyUncleanMinWarns ==
    call.op = "get min" =>
        /\ call.result = EffectiveMin(attributes["min"])
        /\ console = IF /\ attributes["min"] \notin {None, Some(<<>>)}
                        /\ ~IsCleanPositive(attributes["min"][1])
                     THEN {WarnMin} ELSE {}

\* min has just been read with the zero-padded string "03" in the attribute
C11_Witness ==
    /\ call.op = "get min"
    /\ attributes["min"] = Some(<<"0", "3">>)
    /\ call.result = 1
    /\ WarnMin \in console

(* C12: for every max attribute string a read of max gives either no limit or
   an integer strictly greater than the effective min; a string that is not
   an integer ("abc", "2.5", "5x") or whose value is at or below the effective
   min gives no limit and reports a warning, judged against the min attribute
   as it is at the read. *)
C12_MaxRejectsNonIntegers ==
    call.op = "get max" =>
        /\ call.result # None => call.result[1] > EffectiveMin(attributes["min"])
        /\ attributes["max"] # None =>
              IF /\ IsIntegerString(attributes["max"][1])
                 /\ IntegerValue(attributes["max"][1]) > EffectiveMin(attributes["min"])
              THEN /\ call.result = Some(IntegerValue(attributes["max"][1]))
                   /\ console \cap {WarnMaxInvalid, WarnMaxNotAboveMin} = {}
              ELSE /\ call.result = None
                   /\ console \cap {WarnMaxInvalid, WarnMaxNotAboveMin} # {}

(* ------------------------ the aggregated value -------------------------- *)
\* the value of attribute name of element, or the empty string
AttributeOr(element, name) ==
    IF \E a \in 1..Len(element.attrs) : element.attrs[a].name = name
    THEN element.attrs[CHOOSE a \in 1..Len(element.attrs) :
                         element.attrs[a].name = name].value
    ELSE <<>>

\* what the claim lets one control contribute
Contribution(control) ==
    LET name == AttributeOr(control, "name")
        type == AttributeOr(control, "type")
        disabled == \E a \in 1..Len(control.attrs) : control.attrs[a].name = "disabled"
    IN  IF name = <<>> \/ disabled THEN <<>>
        ELSE IF type \in {TypeCheckbox, TypeRadio}
             THEN (IF ~control.checked THEN <<>>
                   ELSE IF AttributeOr(control, "value") = <<>>
                        THEN <<[name |-> name, value |-> On]>>
                        ELSE <<[name |-> name, value |-> AttributeOr(control, "value")]>>)
        ELSE IF type = TypeFile
             THEN [f \in 1..Len(control.files) |->
                     [name |-> name, value |-> control.files[f]]]
        ELSE <<[name |-> name,
                value |-> IF control.value # None THEN control.value[1]
                          ELSE AttributeOr(control, "value")]>>

\* the input, select and textarea descendants of a group, in document order
ControlsOf(group) ==
    SelectSeq(Descendants(group.element), LAMBDA d : d.tag \in ControlTags)

(* C13: the published value holds exactly the contributions of the input,
   select and textarea descendants of the current groups that have a name and
   are not disabled: a checkbox or radio gives (name, value or "on") only when
   checked, a file control one entry per selected file, every other control
   one (name, current value) entry, the empty string included; a removed
   group's controls give nothing. *)
C13_EntriesAreTheControlsContributions ==
    Connected =>
        formValue =
            Flatten([g \in 1..Len(_groups) |->
                Flatten([k \in 1..Len(ControlsOf(_groups[g])) |->
                    Contribution(ControlsOf(_groups[g])[k])])])

\* a group has just been removed and the one left publishes an empty text
\* value and two files, its checkbox being unchecked
C13_Witness ==
    /\ call.op = "_removeGroup"
    /\ events # <<>>
    /\ Len(_groups) = 1
    /\ Len(formValue) = 3
    /\ formValue[1].value = <<>>
    /\ formValue[2].value = <<"x">>
    /\ formValue[3].value = <<"x", "x">>

\* position, within its group, of the control of a page of ControlPages whose
\* name starts with letter
NameOrder == <<"a", "o", "f", "p", "r">>

Rank(name) == CHOOSE k \in 1..Len(NameOrder) : NameOrder[k] = name[1]

(* C14: the entries of the published value are ordered by group position
   first and by document order of the controls within a group second, after
   any sequence of adds and removes: on pages whose control names carry the
   group number, the numbers never decrease along the entries, stay within
   1..length, and within one number the controls come in document order. *)
C14_EntriesInGroupThenDocumentOrder ==
    Connected =>
        /\ \A k \in 1..Len(formValue) :
              RightmostNumber(formValue[k].name) \in 1..Len(_groups)
        /\ \A k \in 1..(Len(formValue) - 1) :
              \/ RightmostNumber(formValue[k].name) <
                     RightmostNumber(formValue[k + 1].name)
              \/ /\ RightmostNumber(formValue[k].name) =
                        RightmostNumber(formValue[k + 1].name)
                 /\ Rank(formValue[k].name) <= Rank(formValue[k + 1].name)

\* a second group has just been added, and both groups publish the entries
\* of two controls or more
C14_Witness ==
    /\ call.op = "_addGroup"
    /\ events # <<>>
    /\ Len(_groups) = 2
    /\ Len(formValue) >= 4
    /\ RightmostNumber(formValue[1].name) = 1
    /\ RightmostNumber(formValue[2].name) = 1
    /\ RightmostNumber(formValue[Len(formValue) - 1].name) = 2
    /\ RightmostNumber(formValue[Len(formValue)].name) = 2
    /\ Rank(formValue[1].name) < Rank(formValue[2].name)

(* C15: after every completed operation (connect, add, remove, attribute
   change, form reset, form disable or enable, a user's edit of a control)
   the value last published through setFormValue is the aggregation of the
   current groups' current control states: it is never stale. *)
C15_PublishedValueNeverStale ==
    Connected => formValue = Aggregate(_groups)

(* --------------------------- initialization ----------------------------- *)
\* the children of the page that are not a <template>
ContentChildren(nodes) == SelectSeq(nodes, LAMBDA child : child.tag # "TEMPLATE")

\* the step is the first connectedCallback of the component
FirstConnect == call'.op = "connectedCallback" /\ ~Connected

\* the page holds a <template> with an element in it
HasUsableTemplate(nodes) ==
    \E t \in 1..Len(nodes) :
        /\ nodes[t].tag = "TEMPLATE"
        /\ \E k \in 1..Len(nodes[t].children) : IsElement(nodes[t].children[k])

(* C16: when the component is initialized with one child element or more, the
   children become the groups, in their order and as they are: no attribute,
   text or control state of a child is changed by template extraction or
   initialization, and no event is dispatched. *)
C16_ChildrenAdoptedVerbatim ==
    [][FirstConnect /\ ContentChildren(children) # <<>> =>
         /\ [i \in 1..Len(_groups') |-> _groups'[i].element] =
                ContentChildren(children)
         /\ events' = <<>>]_vars

\* the first connection has just adopted two children behind an explicit
\* template or without one
C16_Witness ==
    /\ call.op = "connectedCallback"
    /\ _nextId = 3
    /\ events = <<>>
    /\ Len(_groups) = 2
    /\ _groups[2].element = StopGroup(2)

(* C17: when the component is initialized with no content child and an
   explicit template that holds an element, exactly one group is synthesized
   by add(), numbered 1 and announced by one added event, whatever min and
   max are. *)
C17_OneGroupSynthesized ==
    [][FirstConnect /\ ContentChildren(children) = <<>>
                    /\ HasUsableTemplate(children) =>
         /\ Len(_groups') = 1
         /\ _groups'[1].id = 1
         /\ DisplaysNumber(_groups'[1].element, 1)
         /\ NoMarker(_groups'[1].element)
         /\ Len(events') = 1
         /\ events'[1].type = "form-repeatable:added"
         /\ events'[1].groupCount = 1]_vars

\* one group has just been synthesized from the explicit template although
\* min is 2
C17_Witness ==
    /\ call.op = "connectedCallback"
    /\ Len(events) = 1
    /\ Len(_groups) = 1
    /\ _nextId = 2
    /\ min(This) = 2

(* C18: with fewer children than min (min="2" and one child) the component
   starts with the supplied groups only, below min; from a state below min an
   add is accepted and the add button is rendered, and a remove is refused
   while the length is at or below min. *)
C18_StartsBelowMinAndGrows ==
    [][/\ FirstConnect /\ ContentChildren(children) # <<>> =>
            Len(_groups') = Len(ContentChildren(children))
       /\ Connected /\ Len(_groups) < min(This) =>
            /\ shadow[1].add # None
            /\ call'.op = "_addGroup" /\ _template # None =>
                  Len(_groups') = Len(_groups) + 1
       /\ Connected /\ call'.op = "_removeGroup" /\ Len(_groups) <= min(This) =>
            _groups' = _groups]_vars

\* an add has just brought a component that started with one child up to its
\* min of 2
C18_Witness ==
    /\ call.op = "_addGroup"
    /\ events # <<>>
    /\ _nextId = 3
    /\ Len(_groups) = 2
    /\ min(This) = 2

(* ------------------------------ templates ------------------------------- *)
\* positions f..l of s hold a whole number: a run of digits with no digit
\* before or after it
IsNumberAt(s, f, l) ==
    /\ \A k \in f..l : IsDigit(s[k])
    /\ (f = 1 \/ ~IsDigit(s[f - 1]))
    /\ (l = Len(s) \/ ~IsDigit(s[l + 1]))

\* r is s with a number of s replaced by the placeholder, or s itself when s
\* holds no digit
Placeheld(s, r) ==
    IF ~HasDigit(s) THEN r = s
    ELSE \E f \in 1..Len(s) : \E l \in f..Len(s) :
           /\ IsNumberAt(s, f, l)
           /\ r = SubSeq(s, 1, f - 1) \o Marker \o SubSeq(s, l + 1, Len(s))

\* t is the element o with the numbers of its attribute values and
\* label/legend texts, and of those of its descendants, replaced by the
\* placeholder
RECURSIVE TemplateOf(_, _)
TemplateOf(o, t) ==
    /\ t.tag = o.tag
    /\ Len(t.attrs) = Len(o.attrs)
    /\ \A a \in 1..Len(o.attrs) :
          /\ t.attrs[a].name = o.attrs[a].name
          /\ Placeheld(o.attrs[a].value, t.attrs[a].value)
    /\ IF IsLabelOrLegend(o) THEN Placeheld(textContent(o), textContent(t))
       ELSE /\ Len(t.children) = Len(o.children)
            /\ \A i \in 1..Len(o.children) :
                  IF IsElement(o.children[i])
                  THEN IsElement(t.children[i])
                       /\ TemplateOf(o.children[i], t.children[i])
                  ELSE t.children[i] = o.children[i]

(* C19: without an explicit template the template is a clone of the first
   child in which, for the child and every descendant, every attribute value
   and every label/legend text that contains a number has that number
   replaced by the placeholder ("stop-1" becomes "stop-{n}", "Stop 1" becomes
   "Stop {n}") and every string without a digit is unchanged. *)
C19_TemplateReplacesNumbers ==
    [][/\ FirstConnect
       /\ children # <<>>
       /\ \A i \in 1..Len(children) : children[i].tag # "TEMPLATE"
       => /\ _template' # None
          /\ TemplateOf(children[1], _template'[1])]_vars

\* the element in the first <template> of nodes
ExplicitContent(nodes) ==
    LET t == CHOOSE i \in 1..Len(nodes) :
               /\ nodes[i].tag = "TEMPLATE"
               /\ \A j \in 1..(i - 1) : nodes[j].tag # "TEMPLATE"
    IN  Head(SelectSeq(nodes[t].children, IsElement))

(* C20: when the page holds an explicit template node, the first element of
   its content is the template as it is, digits included, with no number
   replaced by the placeholder; the template node leaves the content and is
   never a group, and the remaining children are adopted as the groups. *)
C20_ExplicitTemplateUsedAsIs ==
    [][FirstConnect /\ HasUsableTemplate(children) =>
         /\ _template' = Some(ExplicitContent(children))
         /\ \A i \in 1..Len(children') : children'[i].tag # "TEMPLATE"
         /\ \A i \in 1..Len(_groups') : _groups'[i].element.tag # "TEMPLATE"
         /\ ContentChildren(children) # <<>> =>
               [i \in 1..Len(_groups') |-> _groups'[i].element] =
                   ContentChildren(children)]_vars

\* the first connection has just taken the template with a two-digit
\* attribute as it is and adopted the child behind it
C20_Witness ==
    /\ call.op = "connectedCallback"
    /\ events = <<>>
    /\ _template = Some(ExplicitContent(<<DigitTemplate>>))
    /\ Len(_groups) = 1
    /\ _groups[1].element = StopGroup(1)

(* ------------------------- template errors ------------------------------ *)
\* the step is a connectedCallback on a page from which no template can be
\* extracted
ConnectWithoutTemplate ==
    /\ call'.op = "connectedCallback"
    /\ ~HasUsableTemplate(children)
    /\ (children = <<>> \/ \E i \in 1..Len(children) : children[i].tag = "TEMPLATE")

(* C21: when no template can be extracted (no explicit template and no
   child) or the explicit template is empty, connecting reports an error
   diagnostic, and the component is inert for add: every later add() reports
   an error diagnostic, changes no state and dispatches no event. *)
C21_EveryAddWithoutTemplateReportsError ==
    [][/\ ConnectWithoutTemplate =>
            console' \cap {ErrorNoTemplate, ErrorTemplateEmpty} # {}
       /\ Connected /\ _template = None /\ call'.op = "_addGroup" =>
            /\ ErrorCannotAdd \in console'
            /\ Untouched
            /\ events' = <<>>]_vars

(* C21, amended: connecting such a page reports an error diagnostic (the
   empty-template error for an empty <template>, the no-template error for a
   page without template and children), and the component is inert for add:
   every later add() changes no state and dispatches no event, and reports an
   error diagnostic unless the collection is at its effective max, where the
   add is refused before the template is looked at and nothing is reported. *)
C21_InertWithoutTemplate ==
    [][/\ ConnectWithoutTemplate =>
            IF children = <<>> THEN ErrorNoTemplate \in console'
            ELSE ErrorTemplateEmpty \in console'
       /\ Connected /\ _template = None /\ call'.op = "_addGroup" =>
            /\ Untouched
            /\ events' = <<>>
            /\ ErrorCannotAdd \in console' <=>
                   (max(This) = None \/ Len(_groups) < max(This)[1])]_vars

\* add() has just reported the missing template on a component connected
\* with an empty <template> before one group
C21_Witness ==
    /\ call.op = "_addGroup"
    /\ Connected
    /\ _template = None
    /\ Len(_groups) = 1
    /\ ErrorCannotAdd \in console
    /\ events = <<>>

(* ----------------- the pattern matcher, fill and renumber --------------- *)
\* first position of the run of digits of s that ends at position l
RunStart(s, l) ==
    CHOOSE f \in 1..l :
        /\ \A k \in f..l : IsDigit(s[k])
        /\ (f = 1 \/ ~IsDigit(s[f - 1]))

(* C22: for every string the count regex gives no match when the string has
   no digit, and otherwise (prefix, number, suffix) where number is the
   rightmost maximal run of digits ("12" for "s-12"), prefix everything
   before it and suffix everything after it, so that prefix + number + suffix
   is the string. *)
C22_MatcherTakesRightmostRun ==
    call.op = "match" =>
        IF ~HasDigit(call.text) THEN call.result = None
        ELSE LET l == LastDigit(call.text, 1, Len(call.text) + 1)
                 f == RunStart(call.text, l)
             IN  /\ call.result # None
                 /\ call.result[1].prefix = SubSeq(call.text, 1, f - 1)
                 /\ call.result[1].number = SubSeq(call.text, f, l)
                 /\ call.result[1].suffix = SubSeq(call.text, l + 1, Len(call.text))
                 /\ call.result[1].prefix \o call.result[1].number
                        \o call.result[1].suffix = call.text

\* s with every placeholder replaced by the digits d
RECURSIVE WithNumber(_, _)
WithNumber(s, d) ==
    IF Len(s) < 3 THEN s
    ELSE IF SubSeq(s, 1, 3) = <<"{", "n", "}">>
         THEN d \o WithNumber(SubSeq(s, 4, Len(s)), d)
         ELSE <<Head(s)>> \o WithNumber(Tail(s), d)

\* r is the template element t with every placeholder of its attribute
\* values and label/legend texts, and of those of its descendants, replaced
\* by d, and nothing else changed
RECURSIVE FilledFrom(_, _, _)
FilledFrom(t, r, d) ==
    /\ r.tag = t.tag
    /\ r.value = t.value /\ r.checked = t.checked /\ r.files = t.files
    /\ Len(r.attrs) = Len(t.attrs)
    /\ \A a \in 1..Len(t.attrs) :
          /\ r.attrs[a].name = t.attrs[a].name
          /\ r.attrs[a].value = WithNumber(t.attrs[a].value, d)
    /\ Len(r.children) = Len(t.children)
    /\ \A i \in 1..Len(t.children) :
          IF IsElement(t.children[i])
          THEN IsElement(r.children[i]) /\ FilledFrom(t.children[i], r.children[i], d)
          ELSE /\ ~IsElement(r.children[i])
               /\ r.children[i].data =
                      IF IsLabelOrLegend(t) THEN WithNumber(t.children[i].data, d)
                      ELSE t.children[i].data

(* C23: fill(template, n) is a copy of the template in which every
   placeholder in every attribute value and every label/legend text, at every
   depth, is replaced by the decimal string of n (several placeholders in one
   string all by the same n) and nothing else differs: strings without a
   placeholder, text outside labels and legends, and the nodes themselves are
   as in the template. *)
C23_FillReplacesMarkersOnly ==
    call.op = "_fillTemplate" =>
        FilledFrom(call.template, call.result, NatToString(call.number))

(* C25: round trip: for every template string that holds a placeholder and
   every positive n, n >= 10 included, the count regex applied to the string
   filled with n gives the number n. *)
C25_FillThenMatchGivesNumber ==
    call.op = "replace" =>
        /\ call.match # None
        /\ call.match[1].number = NatToString(call.number)

(* C26: idempotence: for every group element and every positive k, k >= 10
   included, renumbering to k twice gives the content that renumbering to k
   once gives. *)
C26_RenumberIsIdempotent ==
    call.op = "_updateGroupNumber" => call.twice = call.once

(* C24: once extracted the template is never modified: no add, remove,
   renumbering, render, reset, disabling, edit, attribute change or
   reconnection changes its content, so that filling it with the same number
   always gives the same group content. *)
C24_TemplateNeverModified ==
    [][_template # None =>
         /\ _template' = _template
         /\ AddAccepted =>
               _groups'[Len(_groups')].element =
                   _fillTemplate(_template'[1], Len(_groups'))]_vars

\* a group has just been added from a template that still holds its
\* placeholders
C24_Witness ==
    /\ call.op = "_addGroup"
    /\ events # <<>>
    /\ Len(_groups) = 2
    /\ _template = Some(_templatize(StopGroup(1)))

(* ------------------------------ form reset ------------------------------ *)
\* the value a control has by default: the text of a <textarea>, the option
\* selected by default of a <select>, the value attribute of an <input>
DefaultOf(control) ==
    IF control.tag = "TEXTAREA" THEN textContent(control)
    ELSE IF control.tag = "SELECT"
         THEN LET options == SelectSeq(Descendants(control),
                                       LAMBDA d : d.tag = "OPTION")
                  marked == SelectSeq(options, LAMBDA o :
                               \E a \in 1..Len(o.attrs) : o.attrs[a].name = "selected")
              IN  IF marked # <<>> THEN AttributeOr(Head(marked), "value")
                  ELSE IF options # <<>> THEN AttributeOr(Head(options), "value")
                  ELSE <<>>
    ELSE AttributeOr(control, "value")

\* the control after is the control before, back in its default state
IsReset(before, after) ==
    /\ after.tag = before.tag
    /\ after.attrs = before.attrs
    /\ IF AttributeOr(before, "type") \in {TypeCheckbox, TypeRadio}
       THEN after.checked =
                (\E a \in 1..Len(before.attrs) : before.attrs[a].name = "checked")
       ELSE IF AttributeOr(before, "type") = TypeFile THEN after.files = <<>>
       ELSE ControlValue(after) = DefaultOf(before)

(* C27: on form reset every checkbox and radio of every current group is back
   in its default checked state and every other control at its default value;
   the number, order, ids and numbering of the groups are as before (added
   groups stay, removed ones do not come back), and the value is republished
   from the restored states. *)
C27_ResetRestoresDefaults ==
    [][call'.op = "formResetCallback" =>
         /\ Len(_groups') = Len(_groups)
         /\ \A g \in 1..Len(_groups) :
               /\ _groups'[g].id = _groups[g].id
               /\ Len(ControlsOf(_groups'[g])) = Len(ControlsOf(_groups[g]))
               /\ \A k \in 1..Len(ControlsOf(_groups[g])) :
                     IsReset(ControlsOf(_groups[g])[k], ControlsOf(_groups'[g])[k])
               /\ NumberedStrings(_groups'[g].element) =
                      NumberedStrings(_groups[g].element)
         /\ formValue' = Aggregate(_groups')]_vars

(* ----------------------------- form disable ----------------------------- *)
\* the inputs, selects, textareas and buttons inside a group
DisableTargets(group) ==
    SelectSeq(Descendants(group.element),
              LAMBDA d : d.tag \in {"INPUT", "SELECT", "TEXTAREA", "BUTTON"})

IsDisabled(control) ==
    \E a \in 1..Len(control.attrs) : control.attrs[a].name = "disabled"

(* C28: formDisabledCallback(d) sets the disabled flag to d on every input,
   select, textarea and button inside every current group, and on every
   rendered add and remove button. *)
C28_DisabledReachesControlsAndButtons ==
    [][call'.op = "formDisabledCallback" =>
         /\ Len(_groups') = Len(_groups)
         /\ \A g \in 1..Len(_groups') :
               /\ Len(DisableTargets(_groups'[g])) = Len(DisableTargets(_groups[g]))
               /\ \A k \in 1..Len(DisableTargets(_groups'[g])) :
                     IsDisabled(DisableTargets(_groups'[g])[k]) = call'.disabled
         /\ shadow # None =>
               /\ shadow' # None
               /\ Len(shadow'[1].groups) = Len(shadow[1].groups)
               /\ (shadow'[1].add = None) = (shadow[1].add = None)
               /\ shadow'[1].add # None => shadow'[1].add[1].disabled = call'.disabled
               /\ \A i \in 1..Len(shadow'[1].groups) :
                     /\ (shadow'[1].groups[i].remove = None) =
                           (shadow[1].groups[i].remove = None)
                     /\ shadow'[1].groups[i].remove # None =>
                           shadow'[1].groups[i].remove[1].disabled = call'.disabled]_vars

\* the form was just disabled with two groups rendered, each with a control
\* and a remove button, and with the add button rendered
C28_Witness ==
    /\ call.op = "formDisabledCallback"
    /\ call.disabled
    /\ Len(_groups) = 2
    /\ \A g \in 1..2 : DisableTargets(_groups[g]) # <<>>
    /\ shadow # None
    /\ shadow[1].add # None
    /\ shadow[1].add[1].disabled
    /\ \A i \in 1..Len(shadow[1].groups) :
          shadow[1].groups[i].remove # None /\ shadow[1].groups[i].remove[1].disabled

(* ------------------------ remove buttons' labels ------------------------ *)
\* the labels and legends of a group, in document order
LabelsAndLegends(group) ==
    SelectSeq(Descendants(group.element), LAMBDA d : d.tag \in {"LABEL", "LEGEND"})

\* the remove-label in force
RemoveLabelInForce ==
    IF attributes["remove-label"] \in {None, Some(<<>>)} THEN DefaultRemoveLabel
    ELSE attributes["remove-label"][1]

\* remove-label, a space and the text of the group's first label or legend,
\* or remove-label alone for a group with neither
AccessibleRemoveLabel(group) ==
    IF LabelsAndLegends(group) = <<>> THEN RemoveLabelInForce
    ELSE RemoveLabelInForce \o <<" ">> \o trim(textContent(Head(LabelsAndLegends(group))))

(* C29: in every rendered state the accessible label of each group's remove
   button is remove-label, a space and the text of the group's first label or
   legend, and remove-label alone for a group with neither; it is computed
   from the group's current (renumbered) text. *)
C29_RemoveLabelNamesFirstLabelOrLegend ==
    shadow # None =>
        /\ Len(shadow[1].groups) = Len(_groups)
        /\ \A i \in 1..Len(_groups) :
              shadow[1].groups[i].remove # None =>
                  shadow[1].groups[i].remove[1].ariaLabel = AccessibleRemoveLabel(_groups[i])

(* -------------------------- property reflection ------------------------- *)
(* C30: assigning a non-empty string to the addLabel or removeLabel property,
   a positive integer to min, or an integer greater than the effective min to
   max writes the attribute of the property (add-label, remove-label, min,
   max) as the string form of the value, and the property then reads as the
   value assigned. *)
C30_PropertiesReflectToAttributes ==
    [][/\ (call'.op = "set label" /\ call'.text # <<>>) =>
             (/\ attributes'[PropertyAttribute(call'.name)] = Some(call'.text)
              /\ call'.read = call'.text)
       /\ (call'.op = "set number"
           /\ call'.number > (IF call'.name = "min" THEN 0
                               ELSE EffectiveMin(attributes["min"]))) =>
             (/\ attributes'[PropertyAttribute(call'.name)] = Some(toString(call'.number))
              /\ call'.read = Some(call'.number))]_vars

(* -------------------------- re-entrant listeners ------------------------ *)
\* the component c shows a completed operation: its groups are numbered, its
\* regions and buttons are those of its groups, min and max, and its
\* published value is the aggregation of its groups
Settled(c) ==
    /\ Numbered(c._groups)
    /\ c.shadow # None
    /\ Len(c.shadow[1].groups) = Len(c._groups)
    /\ \A i \in 1..Len(c._groups) :
          /\ c.shadow[1].groups[i].groupId = c._groups[i].id
          /\ (c.shadow[1].groups[i].remove # None) <=> Len(c._groups) > min(c)
    /\ (c.shadow[1].add # None) <=> (max(c) = None \/ Len(c._groups) < max(c)[1])
    /\ c.formValue = Aggregate(c._groups)

(* C31: when a listener of the added or removed event runs, the collection,
   its numbering, the rendered buttons and the published value are those of
   the completed operation, also when the listener itself adds, removes or
   changes max; what the listener does leaves the ids unique and the
   numbering sequential. *)
C31_ListenersSeeCompletedOperations ==
    [][call'.op = "listener" =>
         /\ Settled(call'.seen)
         /\ Len(call'.seen.events) = 1
         /\ call'.seen.events[1].groupCount = Len(call'.seen._groups)
         /\ IdsInOrder(_groups', _nextId')
         /\ Numbered(_groups')]_vars

(* ----------------------------- positions -------------------------------- *)
(* C32: after every completed structural operation the index field of every
   group is its 0-based position in the collection, also for the groups that
   moved down when an earlier group was removed, and the group carried by an
   added event has the position it was given. *)
C32_IndexIsPosition ==
    /\ \A i \in 1..Len(_groups) : _groups[i].index = i - 1
    /\ \A e \in 1..Len(events) :
          events[e].type = "form-repeatable:added" =>
              events[e].group.index = Len(_groups) - 1

(* ------------------------ strings without a number ---------------------- *)
\* element and its descendant elements, in document order
NodesOf(element) == <<element>> \o Descendants(element)

\* the strings of element that extraction, fill and renumbering look at: the
\* attribute values (node i, attribute a) and the label/legend texts (node i,
\* a = 0)
Slots(element) ==
    UNION {{<<i, a>> : a \in 1..Len(NodesOf(element)[i].attrs)}
           \cup (IF NodesOf(element)[i].tag \in {"LABEL", "LEGEND"}
                 THEN {<<i, 0>>} ELSE {})
           : i \in 1..Len(NodesOf(element))}

SlotString(element, slot) ==
    IF slot[2] = 0 THEN textContent(NodesOf(element)[slot[1]])
    ELSE NodesOf(element)[slot[1]].attrs[slot[2]].value

HoldsMarker(s) == \E k \in 1..(Len(s) - 2) : SubSeq(s, k, k + 2) = Marker

\* a and b have the same elements with the same attributes, in the same order
SameSlots(a, b) ==
    /\ Len(NodesOf(a)) = Len(NodesOf(b))
    /\ \A i \in 1..Len(NodesOf(a)) :
          /\ NodesOf(a)[i].tag = NodesOf(b)[i].tag
          /\ [k \in 1..Len(NodesOf(a)[i].attrs) |-> NodesOf(a)[i].attrs[k].name] =
                [k \in 1..Len(NodesOf(b)[i].attrs) |-> NodesOf(b)[i].attrs[k].name]

\* the step keeps the strings without a number, or without a placeholder
StringsKept ==
    /\ (/\ FirstConnect
        /\ children # <<>>
        /\ \A i \in 1..Len(children) : children[i].tag # "TEMPLATE") =>
          (/\ _template' # None
           /\ SameSlots(children[1], _template'[1])
           /\ \A slot \in Slots(children[1]) :
                 ~HasDigit(SlotString(children[1], slot)) =>
                     SlotString(_template'[1], slot) = SlotString(children[1], slot))
    /\ _template # None =>
          \A g \in 1..Len(_groups), h \in 1..Len(_groups') :
             (/\ _groups[g].id = _groups'[h].id
              /\ SameSlots(_groups[g].element, _template[1])
              /\ SameSlots(_groups'[h].element, _template[1])) =>
                 \A slot \in Slots(_template[1]) :
                     ~HoldsMarker(SlotString(_template[1], slot)) =>
                         SlotString(_groups'[h].element, slot) =
                             SlotString(_groups[g].element, slot)

(* C33: template extraction leaves every attribute value and label/legend
   text without a number as it is, and a string of a group whose template
   string holds no placeholder (a digit-bearing string of an explicit template
   such as a maxlength included) is not changed by any later step, renumbering
   included. *)
C33_StringsWithoutPlaceholderKept == [][StringsKept]_vars

(* C34: renumbering agrees with filling: for every template, extracted from a
   first child or explicit, and all positive a and b, the group filled with a
   and renumbered to b has the content of the group filled with b. *)
C34_RenumberAgreesWithFill ==
    call.op = "renumber filled" => call.renumbered = call.filled

(* ------------------------ values across a removal ----------------------- *)
\* the values a group contributes to the aggregated value, in order
SubmittedValues(group) ==
    LET entries == Flatten([k \in 1..Len(ControlsOf(group)) |->
                              Contribution(ControlsOf(group)[k])])
    IN  [e \in 1..Len(entries) |-> entries[e].value]

(* C35: a removal does not alter the values the remaining groups submit: each
   remaining group contributes the same sequence of values right after the
   removal as right before it, also when the value attribute of one of its
   controls holds a digit. *)
C35_RemovalKeepsSubmittedValues ==
    [][RemoveAccepted =>
         \A g \in 1..Len(_groups), h \in 1..Len(_groups') :
            _groups[g].id = _groups'[h].id =>
                SubmittedValues(_groups'[h]) = SubmittedValues(_groups[g])]_vars

(* ------------------------------ reconnection ---------------------------- *)
(* C36: connectedCallback run again, on a component whose groups were moved
   into the shadow tree, leaves the groups as they are (length, ids, order
   and content), leaves the template as it is and dispatches no added
   event. *)
C36_ReconnectChangesNothing ==
    [][call'.op = "connectedCallback" /\ Connected =>
         /\ _groups' = _groups
         /\ _template' = _template
         /\ events' = <<>>]_vars

(* ------------------------------ tree shape ------------------------------ *)
\* the child elements of an element
ElementChildren(element) == SelectSeq(element.children, LAMBDA n : n.tag # "#text")

\* a and b are trees of the same elements: same tag, and child elements that
\* are pairwise trees of the same elements
RECURSIVE SameTree(_, _)
SameTree(a, b) ==
    /\ a.tag = b.tag
    /\ Len(ElementChildren(a)) = Len(ElementChildren(b))
    /\ \A i \in 1..Len(ElementChildren(a)) :
          SameTree(ElementChildren(a)[i], ElementChildren(b)[i])

\* the step neither adds nor removes a node: the template it extracts has
\* the elements of the first child or of the explicit template's content,
\* the group it adds has the elements of the template, and the groups that
\* stay keep theirs
NodesKept ==
    /\ (FirstConnect /\ _template' # None) =>
          SameTree(_template'[1],
                   IF HasUsableTemplate(children) THEN ExplicitContent(children)
                   ELSE children[1])
    /\ (/\ call'.op = "_addGroup" \/ ContentChildren(children) = <<>>
        /\ _template' # None
        /\ Len(_groups') > 0
        /\ _groups'[Len(_groups')].id >= _nextId) =>
          SameTree(_groups'[Len(_groups')].element, _template'[1])
    /\ \A g \in 1..Len(_groups), h \in 1..Len(_groups') :
          _groups[g].id = _groups'[h].id =>
              SameTree(_groups'[h].element, _groups[g].element)

(* C37: template extraction, filling and renumbering rewrite strings and
   never add or remove a node: every group made by add has the element tree,
   and so the controls, of the first child or explicit template content it
   comes from, also when a label or legend has child elements such as a
   nested input. *)
C37_GroupsKeepTheTemplateTree == [][NodesKept]_vars

(* --------------------------- truthful buttons --------------------------- *)
\* the rendered remove button of the group with this id, if any
RemoveButtonOf(groupId) ==
    IF shadow = None THEN None
    ELSE LET regions == SelectSeq(shadow[1].groups, LAMBDA r : r.groupId = groupId)
         IN  IF regions = <<>> THEN None ELSE Head(regions).remove

\* the step activates a rendered button, and the button does what it shows
ButtonsTruthful ==
    /\ (/\ call'.op = "_addGroup"
        /\ shadow # None
        /\ shadow[1].add # None
        /\ ~shadow[1].add[1].disabled) =>
          (/\ Len(_groups') = Len(_groups) + 1
           /\ SubSeq(_groups', 1, Len(_groups)) = _groups
           /\ Len(events') = 1
           /\ events'[1].type = "form-repeatable:added")
    /\ (/\ call'.op = "_removeGroup"
        /\ RemoveButtonOf(call'.groupId) # None
        /\ ~RemoveButtonOf(call'.groupId)[1].disabled) =>
          (/\ Len(_groups') = Len(_groups) - 1
           /\ Ids(_groups') = Ids(_groups) \ {call'.groupId}
           /\ Len(events') = 1
           /\ events'[1].type = "form-repeatable:removed"
           /\ events'[1].group.id = call'.groupId)

(* C38: the rendered buttons are truthful: in every rendered state activating
   a rendered add button adds exactly one group (one more, one added event)
   and activating the rendered remove button of a group removes exactly that
   group (one less, one removed event), however often the component was
   rendered again. *)
C38_ButtonsDoWhatTheyShow == [][ButtonsTruthful]_vars

(* --------------------------- max and min changes ------------------------ *)
\* the step is an add, a remove or a change of the min attribute, taken with
\* an integer in the max attribute and no more groups than it
StepUnderMax ==
    /\ \/ call'.op \in {"_addGroup", "_removeGroup"}
       \/ call'.op = "attributeChangedCallback" /\ call'.name = "min"
    /\ attributes["max"] # None
    /\ IsIntegerString(attributes["max"][1])
    /\ Len(_groups) <= IntegerValue(attributes["max"][1])

(* C39: when the max attribute holds an integer M and the collection has at
   most M groups, no add, remove or change of the min attribute, the max
   attribute being left alone, takes the length above M. *)
C39_MaxAttributeBoundsLength ==
    [][StepUnderMax => Len(_groups') <= IntegerValue(attributes["max"][1])]_vars

(* C39, amended: the same holds while M is greater than the effective min;
   once a min change has made the effective min M or more, max is treated as
   unset and adds are no longer refused. *)
C39_MaxAboveMinBoundsLength ==
    [][(/\ StepUnderMax
        /\ IntegerValue(attributes["max"][1]) > EffectiveMin(attributes["min"])) =>
          Len(_groups') <= IntegerValue(attributes["max"][1])]_vars

\* an add has just been refused on a collection that is as long as the max
\* attribute says, with a min attribute below it
C39_Witness ==
    /\ call.op = "_addGroup"
    /\ events = <<>>
    /\ attributes["max"] = Some(<<"3">>)
    /\ attributes["min"] = Some(<<"2">>)
    /\ Len(_groups) = 3

(* ---------------------------- staying disabled -------------------------- *)
\* every rendered add and remove button is disabled
ButtonsDisabled(root) ==
    root # None =>
        /\ root[1].add # None => root[1].add[1].disabled
        /\ \A i \in 1..Len(root[1].groups) :
              root[1].groups[i].remove # None => root[1].groups[i].remove[1].disabled

\* every input, select, textarea and button inside the groups is disabled
ControlsDisabled(groups) ==
    \A g \in 1..Len(groups) :
        \A k \in 1..Len(DisableTargets(groups[g])) :
            IsDisabled(DisableTargets(groups[g])[k])

\* the step is taken by a disabled component and does not enable it: the
\* form was disabled by the step before, and this one is an attribute
\* change, with the re-render it brings, or a reset
StepWhileDisabled ==
    /\ call.op = "formDisabledCallback"
    /\ call.disabled
    /\ call'.op \in {"attributeChangedCallback", "formResetCallback"}

(* C40: while the component is disabled, after formDisabledCallback(true) and
   before formDisabledCallback(false), every add and remove button and every
   control inside a group stays disabled across any attribute change or
   re-render, so that no group is added or removed and no group control
   contributes to the published value. *)
C40_DisabledStaysDisabled ==
    [][StepWhileDisabled =>
         /\ ButtonsDisabled(shadow')
         /\ ControlsDisabled(_groups')
         /\ Ids(_groups') = Ids(_groups)
         /\ formValue' = <<>>]_vars
====
